---- MODULE Spec2Model ----
(***************************************************************************)
(* The collector of typewiz: the ingest endpoint (middleware) and the      *)
(* transactional upsert of a batch into the SQLite store                   *)
(* (SQLiteTypeCollector.processTypeData), src/lib/sqlite-collector.js.     *)
(*                                                                         *)
(* JavaScript values are tagged records [k |-> kind, v |-> payload];       *)
(* JavaScript strings are sequences of one-character strings, so that the  *)
(* string tests of the code (length, includes, split, sort) are computed.  *)
(* A child row names its entity by the entity's natural key                *)
(* (filename, offset_position): the AUTOINCREMENT id that upsertEntity     *)
(* returns identifies exactly that row.  The timestamp columns             *)
(* (first_seen, last_seen) are left out: nothing here reads them.          *)
(***************************************************************************)
EXTENDS Integers, Sequences, FiniteSets, TLC

\* Bounds of the model.
MaxReqs == 2
MaxBatch == 2
MaxFaultStmt == 3
MaxEntries == 3
MaxChunk == 2

(***************************************************************************)
(* JavaScript values, as JSON.parse yields them                            *)
(***************************************************************************)
JNull == [k |-> "null", v |-> 0]
Undefined == [k |-> "undefined", v |-> 0]
JStr(s) == [k |-> "string", v |-> s]
JNum(n) == [k |-> "number", v |-> n]
JBool(b) == [k |-> "boolean", v |-> b]
JArr(a) == [k |-> "array", v |-> a]
\* An object is the sequence of its <<key, value>> pairs in insertion order.
JObj(p) == [k |-> "object", v |-> p]
\* The number NaN (what parseInt yields for a text without a leading integer)
NaN == [k |-> "nan", v |-> 0]

Min(a, b) == IF a < b THEN a ELSE b
Take(s, n) == SubSeq(s, 1, Min(n, Len(s)))

\* !x
Falsy(x) ==
    CASE x.k \in {"null", "undefined", "nan"} -> TRUE
      [] x.k = "boolean" -> ~x.v
      [] x.k = "number" -> x.v = 0
      [] x.k = "string" -> x.v = <<>>
      [] OTHER -> FALSE

\* a || b
OrElse(a, b) == IF Falsy(a) THEN b ELSE a

\* o.key for a value o that is neither null nor undefined
Get(o, key) ==
    IF o.k = "object" /\ \E i \in 1..Len(o.v) : o.v[i][1] = key
    THEN LET last == CHOOSE i \in 1..Len(o.v) :
                        /\ o.v[i][1] = key
                        /\ \A j \in (i+1)..Len(o.v) : o.v[j][1] # key
         IN o.v[last][2]
    ELSE Undefined

\* a[i], zero-based, for an array or a string
Idx(a, i) ==
    IF a.k = "array" /\ i + 1 <= Len(a.v) THEN a.v[i + 1]
    ELSE IF a.k = "string" /\ i + 1 <= Len(a.v) THEN JStr(<<a.v[i + 1]>>)
    ELSE Undefined

\* What for..of and array destructuring accept
Iterable(x) == x.k \in {"array", "string"}
Items(x) == IF x.k = "array" THEN x.v ELSE [i \in 1..Len(x.v) |-> JStr(<<x.v[i]>>)]

RECURSIVE Join(_, _)
Join(ss, sep) ==
    IF ss = <<>> THEN <<>>
    ELSE IF Len(ss) = 1 THEN ss[1]
    ELSE ss[1] \o sep \o Join(Tail(ss), sep)

DigitChars == <<"0", "1", "2", "3", "4", "5", "6", "7", "8", "9">>

RECURSIVE Digits(_)
Digits(n) == IF n < 10 THEN <<DigitChars[n + 1]>>
             ELSE Digits(n \div 10) \o <<DigitChars[(n % 10) + 1]>>

\* String(n) of an integer
NumStr(n) == IF n < 0 THEN <<"-">> \o Digits(0 - n) ELSE Digits(n)

\* `${x}` of a primitive (the modelled template literals format numbers and strings)
ToStr(x) ==
    CASE x.k = "string" -> x.v
      [] x.k = "number" -> NumStr(x.v)
      [] x.k = "null" -> <<"n", "u", "l", "l">>
      [] x.k = "undefined" -> <<"u", "n", "d", "e", "f", "i", "n", "e", "d">>
      [] x.k = "boolean" -> IF x.v THEN <<"t", "r", "u", "e">> ELSE <<"f", "a", "l", "s", "e">>
      [] OTHER -> <<"[", "o", "b", "j", "e", "c", "t", "]">>

\* The characters of the model in UTF-16 code-unit order (what Array.prototype.sort compares by)
Alphabet == <<" ", "\"", ",", "-", "/", "0", "1", "2", "3", "4", "5", "6", "7", "8", "9", ":",
              "[", "\\", "]", "_", "a", "b", "c", "d", "e", "f", "g", "h", "i", "j",
              "k", "l", "m", "n", "o", "p", "q", "r", "s", "t", "u", "v", "w", "x",
              "y", "z", "{", "}">>
Code(c) == CHOOSE i \in 1..Len(Alphabet) : Alphabet[i] = c

RECURSIVE StrLt(_, _)
StrLt(a, b) ==
    IF b = <<>> THEN FALSE
    ELSE IF a = <<>> THEN TRUE
    ELSE IF Head(a) = Head(b) THEN StrLt(Tail(a), Tail(b))
    ELSE Code(Head(a)) < Code(Head(b))

RECURSIVE InsertSorted(_, _)
InsertSorted(s, x) ==
    IF s = <<>> THEN <<x>>
    ELSE IF StrLt(x, Head(s)) THEN <<x>> \o s
    ELSE <<Head(s)>> \o InsertSorted(Tail(s), x)

\* keys.sort()
RECURSIVE SortStrs(_)
SortStrs(s) == IF s = <<>> THEN <<>> ELSE InsertSorted(SortStrs(Tail(s)), Head(s))

RECURSIVE EscapeChars(_)
EscapeChars(s) ==
    IF s = <<>> THEN <<>>
    ELSE (IF Head(s) \in {"\"", "\\"} THEN <<"\\", Head(s)>> ELSE <<Head(s)>>)
         \o EscapeChars(Tail(s))

Quote(s) == <<"\"">> \o EscapeChars(s) \o <<"\"">>

\* JSON.stringify(value)
RECURSIVE Stringify(_)
Stringify(x) ==
    CASE x.k = "string" -> Quote(x.v)
      [] x.k = "number" -> NumStr(x.v)
      [] x.k = "boolean" -> ToStr(x)
      [] x.k = "array" -> <<"[">> \o Join([i \in 1..Len(x.v) |-> Stringify(x.v[i])], <<",">>) \o <<"]">>
      [] x.k = "object" ->
            <<"{">> \o Join([i \in 1..Len(x.v) |->
                                Quote(x.v[i][1]) \o <<":">> \o Stringify(x.v[i][2])], <<",">>)
            \o <<"}">>
      [] OTHER -> <<"n", "u", "l", "l">>

(***************************************************************************)
(* SQLiteTypeCollector: the pure helpers                                   *)
(***************************************************************************)
LiteralCap == 1000
ArrayCap == 10
MaxEnumLen == 50
MaxEnumTokens == 3
MaxShapeKeys == 20

S_null == <<"n", "u", "l", "l">>
S_undefined == <<"u", "n", "d", "e", "f", "i", "n", "e", "d">>
S_array == <<"a", "r", "r", "a", "y">>
S_object == <<"o", "b", "j", "e", "c", "t">>
S_string == <<"s", "t", "r", "i", "n", "g">>
S_number == <<"n", "u", "m", "b", "e", "r">>
S_boolean == <<"b", "o", "o", "l", "e", "a", "n">>
S_unknown == <<"u", "n", "k", "n", "o", "w", "n">>
S_parameter == <<"p", "a", "r", "a", "m", "e", "t", "e", "r">>
S_in == <<"_", "i", "n", "_">>
S_http == <<"h", "t", "t", "p">>

\* getValueType(value); a parsed JSON value is never a Date, a RegExp or a function
getValueType(value) ==
    CASE value.k = "null" -> S_null
      [] value.k = "undefined" -> S_undefined
      [] value.k = "array" -> S_array
      [] value.k = "object" -> S_object
      [] value.k = "string" -> S_string
      [] value.k = "number" -> S_number
      [] OTHER -> S_boolean

\* serializeLiteralValue(value, valueType)
serializeLiteralValue(value, valueType) ==
    IF valueType = S_object THEN Take(Stringify(value), LiteralCap)
    ELSE IF valueType = S_array THEN Stringify(JArr(Take(value.v, ArrayCap)))
    ELSE Stringify(value)

\* hashValue(literalValue): the first 8 hex digits of MD5, taken to be free of
\* collisions over the literals of the model
hashValue(literalValue) == <<"md5">> \o literalValue

\* value.includes(needle)
Includes(s, needle) ==
    \E i \in 1..(Len(s) - Len(needle) + 1) : SubSeq(s, i, i + Len(needle) - 1) = needle

\* isEnumCandidateString(value)
isEnumCandidateString(value) ==
    /\ ~(Len(value) = 0 \/ Len(value) > MaxEnumLen)
    /\ ~(Includes(value, <<"/">>) \/ Includes(value, <<"\\">>))
    /\ ~Includes(value, S_http)
    /\ ~(\A i \in 1..Len(value) : value[i] \in {DigitChars[d] : d \in 1..10})
    /\ ~(/\ Includes(value, <<" ">>)
         /\ Cardinality({i \in 1..Len(value) : value[i] = " "}) + 1 > MaxEnumTokens)

\* analyzeObjectShape(obj): Undefined stands for the null it returns
analyzeObjectShape(obj) ==
    IF obj.k # "object" THEN Undefined
    ELSE LET keys == [i \in 1..Len(obj.v) |-> obj.v[i][1]]
         IN IF Len(keys) = 0 \/ Len(keys) > MaxShapeKeys THEN Undefined
            ELSE LET sortedKeys == SortStrs(keys)
                     typeOf(key) == getValueType(Get(obj, key))
                 IN [k |-> "shape",
                     v |-> [signature |->
                                Join([i \in 1..Len(sortedKeys) |->
                                        sortedKeys[i] \o <<":">> \o typeOf(sortedKeys[i])], <<",">>),
                            propertyNames |-> Join(sortedKeys, <<",">>),
                            propertyTypes |->
                                Stringify(JObj([i \in 1..Len(sortedKeys) |->
                                        <<sortedKeys[i], JStr(typeOf(sortedKeys[i]))>>]))]]

(***************************************************************************)
(* The store: the five tables of initializeSchema, each a set of rows      *)
(***************************************************************************)
EmptyStore ==
    [entities |-> {}, value_observations |-> {}, string_literals |-> {},
     object_shapes |-> {}, hof_relationships |-> {}]

IsNull(x) == x.k \in {"null", "undefined"}

\* COALESCE(?, column)
Coalesce(param, column) == IF IsNull(param) THEN column ELSE param

\* What better-sqlite3 binds: numbers, strings and null
Bindable(x) == x.k \in {"null", "undefined", "string", "number"}

\* INSERT INTO entities ... ON CONFLICT(filename, offset_position) DO UPDATE: a row that is
\* always inserted, as it would be without the conflict clause
upsertEntityNoConflict(st, filename, offset) ==
    [st EXCEPT !.entities = @ \cup
        {[filename |-> filename, offset_position |-> offset, entity_name |-> JNull,
          entity_type |-> JStr(S_unknown), line_number |-> JNull, column_number |-> JNull,
          observation_count |-> 1]}]

\* upsertEntity (processTypeData)
upsertEntity(st, filename, offset) ==
    LET hit == {r \in st.entities : r.filename = filename /\ r.offset_position = offset}
    IN IF hit = {}
       THEN [st EXCEPT !.entities = @ \cup
                {[filename |-> filename, offset_position |-> offset, entity_name |-> JNull,
                  entity_type |-> JStr(S_unknown), line_number |-> JNull,
                  column_number |-> JNull, observation_count |-> 1]}]
       ELSE [st EXCEPT !.entities =
                (@ \ hit) \cup {[r EXCEPT !.observation_count = @ + 1] : r \in hit}]

\* updateEntity (processTypeData): UPDATE entities SET ... WHERE id = ?
updateEntity(st, functionName, lineNumber, columnNumber, context, entityId) ==
    LET hit == {r \in st.entities :
                    r.filename = entityId[1] /\ r.offset_position = entityId[2]}
    IN [st EXCEPT !.entities =
            (@ \ hit) \cup
            {[r EXCEPT !.entity_name = Coalesce(functionName, @),
                       !.line_number = Coalesce(lineNumber, @),
                       !.column_number = Coalesce(columnNumber, @),
                       !.entity_type = context] : r \in hit}]

\* upsertValueObservation, counting only the first observation of a row
upsertValueObservationNoCount(st, entityId, valueType, literalValue, valueHash, context, sourceLocation) ==
    LET hit == {r \in st.value_observations :
                    r.entity_id = entityId /\ r.value_hash = valueHash /\ r.context = context}
    IN IF hit = {}
       THEN [st EXCEPT !.value_observations = @ \cup
                {[entity_id |-> entityId, value_type |-> valueType,
                  literal_value |-> literalValue, value_hash |-> valueHash,
                  context |-> context, source_location |-> sourceLocation,
                  observation_count |-> 1]}]
       ELSE st

\* upsertValueObservation (processTypeData)
upsertValueObservation(st, entityId, valueType, literalValue, valueHash, context, sourceLocation) ==
    LET hit == {r \in st.value_observations :
                    r.entity_id = entityId /\ r.value_hash = valueHash /\ r.context = context}
    IN IF hit = {}
       THEN [st EXCEPT !.value_observations = @ \cup
                {[entity_id |-> entityId, value_type |-> valueType,
                  literal_value |-> literalValue, value_hash |-> valueHash,
                  context |-> context, source_location |-> sourceLocation,
                  observation_count |-> 1]}]
       ELSE [st EXCEPT !.value_observations =
                (@ \ hit) \cup {[r EXCEPT !.observation_count = @ + 1] : r \in hit}]

\* upsertStringLiteral (processTypeData)
upsertStringLiteral(st, entityId, value, context) ==
    LET hit == {r \in st.string_literals :
                    r.entity_id = entityId /\ r.string_value = value /\ r.context = context}
    IN IF hit = {}
       THEN [st EXCEPT !.string_literals = @ \cup
                {[entity_id |-> entityId, string_value |-> value, context |-> context,
                  observation_count |-> 1]}]
       ELSE [st EXCEPT !.string_literals =
                (@ \ hit) \cup {[r EXCEPT !.observation_count = @ + 1] : r \in hit}]

\* upsertObjectShape (processTypeData)
upsertObjectShape(st, entityId, signature, propertyNames, propertyTypes) ==
    LET hit == {r \in st.object_shapes :
                    r.entity_id = entityId /\ r.shape_signature = signature}
    IN IF hit = {}
       THEN [st EXCEPT !.object_shapes = @ \cup
                {[entity_id |-> entityId, shape_signature |-> signature,
                  property_names |-> propertyNames, property_types |-> propertyTypes,
                  observation_count |-> 1]}]
       ELSE [st EXCEPT !.object_shapes =
                (@ \ hit) \cup {[r EXCEPT !.observation_count = @ + 1] : r \in hit}]

\* upsertHofRelationship (processTypeData)
upsertHofRelationship(st, entityId, calleeName, calleeArgIndex, filename) ==
    LET hit == {r \in st.hof_relationships :
                    /\ r.callback_entity_id = entityId
                    /\ r.callee_name = calleeName
                    /\ r.callee_arg_index = calleeArgIndex}
    IN IF hit = {}
       THEN [st EXCEPT !.hof_relationships = @ \cup
                {[callback_entity_id |-> entityId, callee_name |-> calleeName,
                  callee_arg_index |-> calleeArgIndex, source_filename |-> filename,
                  observation_count |-> 1]}]
       ELSE [st EXCEPT !.hof_relationships =
                (@ \ hit) \cup {[r EXCEPT !.observation_count = @ + 1] : r \in hit}]

(***************************************************************************)
(* processTypeData: one transaction, one try/catch per entry               *)
(***************************************************************************)
K_filename == <<"f", "i", "l", "e", "n", "a", "m", "e">>
K_offset == <<"o", "f", "f", "s", "e", "t">>
K_types == <<"t", "y", "p", "e", "s">>
K_metadata == <<"m", "e", "t", "a", "d", "a", "t", "a">>
K_functionName == <<"f", "u", "n", "c", "t", "i", "o", "n", "N", "a", "m", "e">>
K_lineNumber == <<"l", "i", "n", "e", "N", "u", "m", "b", "e", "r">>
K_columnNumber == <<"c", "o", "l", "u", "m", "n", "N", "u", "m", "b", "e", "r">>
K_context == <<"c", "o", "n", "t", "e", "x", "t">>
K_calleeName == <<"c", "a", "l", "l", "e", "e", "N", "a", "m", "e">>
K_calleeArgIndex == <<"c", "a", "l", "l", "e", "e", "A", "r", "g", "I", "n", "d", "e", "x">>

\* The state of one run of processTypeData: the store inside the transaction, the
\* number of write statements issued, whether the store rejected one, whether an
\* entry failed, and whether the entry being processed has thrown.
StartRun(st) == [st |-> st, n |-> 0, rejected |-> FALSE, failed |-> FALSE, thrown |-> FALSE]

Throw(ps) == [ps EXCEPT !.thrown = TRUE]

\* statement.run(params) / statement.get(params): a parameter that cannot be bound
\* throws before the store is asked; the store rejects the statement when it is the
\* one the environment fails (fault) or when a NOT NULL constraint fails; otherwise
\* the statement takes effect.
Issue(ps, fault, params, notNullOk, newSt) ==
    IF \E x \in params : ~Bindable(x) THEN Throw(ps)
    ELSE IF ps.n + 1 = fault \/ ~notNullOk
         THEN [ps EXCEPT !.n = @ + 1, !.rejected = TRUE, !.thrown = TRUE]
         ELSE [ps EXCEPT !.n = @ + 1, !.st = newSt]

\* The one element of a singleton set. A result that later steps read more than once
\* is named by a bound variable: The({e(x) : x \in {d}}) is e with x the value of d.
The(S) == CHOOSE x \in S : TRUE

\* processLiteralValue(entityId, value, sourceLocation, ..., functionName, context)
processLiteralValue(ps, fault, entityId, value, sourceLocation, functionName, context) ==
    LET valueType == getValueType(value)
        enhancedContext == IF Falsy(functionName) THEN context
                           ELSE JStr(ToStr(context) \o S_in \o ToStr(functionName))
    IN The({The({The({
            IF ~s2.thrown /\ valueType = S_object /\ shape # Undefined
            THEN Issue(s2, fault, {}, TRUE,
                       upsertObjectShape(s2.st, entityId, shape.v.signature,
                                         shape.v.propertyNames, shape.v.propertyTypes))
            ELSE s2
        : shape \in {analyzeObjectShape(value)}})
        : s2 \in {IF ~s1.thrown /\ valueType = S_string /\ isEnumCandidateString(value.v)
                  THEN Issue(s1, fault, {value}, TRUE,
                             upsertStringLiteral(s1.st, entityId, value.v, S_parameter))
                  ELSE s1}})
        : s1 \in {The({Issue(ps, fault, {enhancedContext, sourceLocation}, TRUE,
                             upsertValueObservation(ps.st, entityId, valueType, literalValue,
                                                    hashValue(literalValue), enhancedContext,
                                                    sourceLocation))
                       : literalValue \in {serializeLiteralValue(value, valueType)}})}})

\* for (const [rawValue, sourceLocation] of types) { ... }
RECURSIVE ProcessValues(_, _, _, _, _, _, _, _)
ProcessValues(ps, fault, items, entityId, functionName, lineNumber, columnNumber, context) ==
    IF items = <<>> \/ ps.thrown THEN ps
    ELSE LET pair == Head(items)
         IN IF ~Iterable(pair) THEN Throw(ps)
            ELSE LET rawValue == Idx(pair, 0)
                     sourceLocation == Idx(pair, 1)
                     sourceLocationStr ==
                        IF ~Falsy(sourceLocation)
                        THEN JStr(ToStr(Idx(sourceLocation, 0)) \o <<":">>
                                  \o ToStr(Idx(sourceLocation, 1)))
                        ELSE IF lineNumber # JNull
                             THEN JStr(ToStr(lineNumber) \o <<":">>
                                       \o ToStr(OrElse(columnNumber, JNum(0))))
                             ELSE JNull
                 IN The({ProcessValues(next, fault, Tail(items), entityId, functionName,
                                       lineNumber, columnNumber, context)
                         : next \in {IF rawValue.k \notin {"undefined", "null"}
                                     THEN processLiteralValue(ps, fault, entityId, rawValue,
                                                              sourceLocationStr, functionName,
                                                              context)
                                     ELSE ps}})

\* The body of the try block for one entry (lines 143-213)
TryEntry(ps, fault, entry) ==
    IF IsNull(entry) THEN Throw(ps)
    ELSE
    LET isArray == entry.k = "array"
        filename == IF isArray THEN Idx(entry, 0) ELSE Get(entry, K_filename)
        offset == IF isArray THEN Idx(entry, 1) ELSE Get(entry, K_offset)
        types == IF isArray THEN Idx(entry, 2) ELSE Get(entry, K_types)
        metadata == IF isArray THEN Idx(entry, 3) ELSE Get(entry, K_metadata)
    IN IF Falsy(filename) THEN ps
       ELSE
       LET isObject == ~Falsy(metadata) /\ metadata.k \in {"object", "array"}
           functionName == IF isObject THEN OrElse(Get(metadata, K_functionName), JNull) ELSE JNull
           lineNumber == IF isObject THEN OrElse(Get(metadata, K_lineNumber), JNull) ELSE JNull
           columnNumber == IF isObject THEN OrElse(Get(metadata, K_columnNumber), JNull) ELSE JNull
           context == IF isObject THEN OrElse(Get(metadata, K_context), JStr(S_unknown))
                      ELSE JStr(S_unknown)
           entityId == <<filename, offset>>
           calleeName == IF Falsy(metadata) THEN Undefined ELSE Get(metadata, K_calleeName)
           calleeArgIndex == IF Falsy(metadata) THEN Undefined ELSE Get(metadata, K_calleeArgIndex)
       IN The({The({The({
                IF s3.thrown THEN s3
                ELSE IF ~Iterable(types) THEN Throw(s3)
                ELSE ProcessValues(s3, fault, Items(types), entityId, functionName,
                                   lineNumber, columnNumber, context)
            : s3 \in {IF ~s2.thrown /\ ~Falsy(calleeName) /\ calleeArgIndex # Undefined
                      THEN Issue(s2, fault, {calleeName, calleeArgIndex},
                                 ~IsNull(calleeArgIndex),
                                 upsertHofRelationship(s2.st, entityId, calleeName,
                                                       calleeArgIndex, filename))
                      ELSE s2}})
            : s2 \in {IF ~s1.thrown /\ (~Falsy(functionName) \/ lineNumber # JNull)
                      THEN Issue(s1, fault, {functionName, lineNumber, columnNumber, context},
                                 TRUE,
                                 updateEntity(s1.st, functionName, lineNumber, columnNumber,
                                              context, entityId))
                      ELSE s1}})
            : s1 \in {Issue(ps, fault, {filename, offset}, TRUE,
                            upsertEntity(ps.st, filename, offset))}})

\* A catch that leaves the loop instead: the entries after a failed one are not processed
CatchEntryBreak(ps, out) == [out EXCEPT !.failed = ps.failed \/ out.thrown]

\* try { ... } catch (error) { console.warn(...) }, then the loop goes on
CatchEntry(ps, out) == [out EXCEPT !.failed = ps.failed \/ out.thrown, !.thrown = FALSE]

\* for (const entry of entries) { try { ... } catch { ... } }
RECURSIVE ProcessEntries(_, _, _)
ProcessEntries(ps, fault, entries) ==
    IF entries = <<>> \/ ps.thrown THEN ps
    ELSE The({ProcessEntries(CatchEntry(ps, out), fault, Tail(entries))
              : out \in {TryEntry(ps, fault, Head(entries))}})

\* fault = -1: the store rejects the transaction itself (BEGIN or COMMIT)
TxnFault == 0 - 1

\* processTypeData(entries) on store st: the store it leaves, whether it threw, whether
\* the store rejected a write and whether an entry failed. An error that leaves the
\* transaction function rolls the transaction back.
processTypeData(st, fault, entries) ==
    IF ~Iterable(entries)
    THEN [st |-> st, threw |-> TRUE, rejected |-> FALSE, failed |-> FALSE]
    ELSE The({IF fault = TxnFault
              THEN [st |-> st, threw |-> TRUE, rejected |-> TRUE, failed |-> run.failed]
              ELSE [st |-> run.st, threw |-> FALSE, rejected |-> run.rejected,
                    failed |-> run.failed]
              : run \in {ProcessEntries(StartRun(st), fault, Items(entries))}})

(***************************************************************************)
(* The ingest endpoint (middleware) and the stats query                    *)
(***************************************************************************)
RECURSIVE SumCounts(_)
SumCounts(rows) ==
    IF rows = {} THEN 0
    ELSE LET r == CHOOSE x \in rows : TRUE
         IN r.observation_count + SumCounts(rows \ {r})

\* SUM(observation_count): NULL over no rows
SqlSum(rows) == IF rows = {} THEN JNull ELSE JNum(SumCounts(rows))

\* getStats(); avg_observations_per_entity is the quotient of two of its fields
getStats(st) ==
    [overview |-> [total_entities |-> Cardinality(st.entities),
                   unique_files |-> Cardinality({r.filename : r \in st.entities}),
                   total_observations |-> SqlSum(st.entities)],
     valueTypes |-> {[value_type |-> t,
                      unique_values |->
                        Cardinality({r \in st.value_observations : r.value_type = t}),
                      total_observations |->
                        SqlSum({r \in st.value_observations : r.value_type = t})] :
                     t \in {r.value_type : r \in st.value_observations}},
     enumAnalysis |-> [entities_with_strings |->
                            Cardinality({r.entity_id : r \in st.string_literals}),
                       total_string_literals |-> Cardinality(st.string_literals),
                       total_string_observations |-> SqlSum(st.string_literals)],
     objectAnalysis |-> [entities_with_objects |->
                            Cardinality({r.entity_id : r \in st.object_shapes}),
                         unique_object_shapes |-> Cardinality(st.object_shapes),
                         total_object_observations |-> SqlSum(st.object_shapes)]]

(***************************************************************************)
(* The inputs of the model                                                 *)
(***************************************************************************)
F_a == JStr(<<"a", ".", "j", "s">>)
F_b == JStr(<<"b", ".", "j", "s">>)
V_ok == JStr(<<"o", "k">>)
V_path == JStr(<<"a", "/", "b">>)
K_id == <<"i", "d">>
K_done == <<"d", "o", "n", "e">>
V_obj1 == JObj(<< <<K_id, JStr(<<"a">>)>>, <<K_done, JBool(FALSE)>> >>)
V_obj2 == JObj(<< <<K_done, JBool(TRUE)>>, <<K_id, JStr(<<"b">>)>> >>)
\* Two arrays of 11 elements that differ in the last one only
V_arr1 == JArr([i \in 1..11 |-> JNum(IF i = 11 THEN 1 ELSE 0)])
V_arr2 == JArr([i \in 1..11 |-> JNum(IF i = 11 THEN 2 ELSE 0)])

Pair(value, provenance) == JArr(<<value, provenance>>)
Tuple(filename, offset, types, metadata) == JArr(<<filename, offset, types, metadata>>)

\* Records of the wire format
R1 == Tuple(F_a, JNum(1), JArr(<<Pair(V_ok, JNull)>>),
            JObj(<< <<K_functionName, JStr(<<"f">>)>>, <<K_lineNumber, JNum(3)>>,
                    <<K_columnNumber, JNum(4)>>, <<K_context, JStr(<<"p">>)>> >>))
R2 == Tuple(F_a, JNum(1), JArr(<<Pair(V_ok, JNull)>>),
            JObj(<< <<K_functionName, JStr(<<"g">>)>> >>))
R3 == Tuple(F_a, JNum(1), JArr(<<Pair(JNull, JNull), Pair(JNum(1), JNull)>>), JObj(<<>>))
R4 == JObj(<< <<K_filename, F_a>>, <<K_offset, JNum(2)>>,
              <<K_types, JArr(<<Pair(V_obj1, JArr(<<F_b, JNum(7)>>)), Pair(V_obj2, JNull)>>)>>,
              <<K_metadata, JObj(<< <<K_lineNumber, JNum(3)>> >>)>> >>)
R5 == Tuple(F_a, JNum(2),
            JArr(<<Pair(V_arr1, JNull), Pair(V_arr2, JNull), Pair(V_path, JNull)>>),
            JObj(<< <<K_calleeName, JStr(<<"m">>)>>, <<K_calleeArgIndex, JNum(0)>>,
                    <<K_context, JStr(<<"c", "b">>)>> >>))
\* Entries that are not records of the wire format
M_types == Tuple(F_a, JNum(1), JNull, JObj(<< <<K_functionName, JStr(<<"h">>)>> >>))
M_index == Tuple(F_a, JNum(1), JArr(<<Pair(V_ok, JNull)>>),
                 JObj(<< <<K_calleeName, JStr(<<"m">>)>>, <<K_calleeArgIndex, JNull>> >>))
M_nofile == JObj(<< <<K_offset, JNum(1)>>, <<K_types, JArr(<<>>)>> >>)

\* The text of a request body is a sequence of tokens: a bracket, the text of one
\* JSON value, or text that is no JSON. TokenValue is the value JSON.parse yields
\* for the text of a value.
ValueTokens == {"R1", "R2", "R3", "R4", "R5", "M_types", "M_index", "M_nofile", "null",
                "{}", "\"ab\"", "5"}
EntryTokens == {"R1", "R2", "R3", "R4", "R5", "M_types", "M_index", "M_nofile", "null"}

TokenValue(tok) ==
    CASE tok = "R1" -> R1
      [] tok = "R2" -> R2
      [] tok = "R3" -> R3
      [] tok = "R4" -> R4
      [] tok = "R5" -> R5
      [] tok = "M_types" -> M_types
      [] tok = "M_index" -> M_index
      [] tok = "M_nofile" -> M_nofile
      [] tok = "null" -> JNull
      [] tok = "{}" -> JObj(<<>>)
      [] tok = "\"ab\"" -> JStr(<<"a", "b">>)
      [] tok = "5" -> JNum(5)

\* JSON.parse(body)
JSONparse(text) ==
    IF /\ Len(text) >= 2
       /\ text[1] = "["
       /\ text[Len(text)] = "]"
       /\ \A i \in 2..(Len(text) - 1) : text[i] \in ValueTokens
    THEN [ok |-> TRUE, value |-> JArr([i \in 1..(Len(text) - 2) |-> TokenValue(text[i + 1])])]
    ELSE IF Len(text) = 1 /\ text[1] \in ValueTokens
         THEN [ok |-> TRUE, value |-> TokenValue(text[1])]
         ELSE [ok |-> FALSE, value |-> Undefined]

\* The 'end' handler of middleware (lines 352-373) on store st and the received body
onEnd(st, text, fault) ==
    The({IF ~parsed.ok \/ IsNull(parsed.value)
         THEN [st |-> st, status |-> 400, rejected |-> FALSE, failed |-> FALSE]
         ELSE The({IF r.threw
                   THEN [st |-> st, status |-> 400, rejected |-> r.rejected,
                         failed |-> r.failed]
                   ELSE [st |-> r.st, status |-> 200, rejected |-> r.rejected,
                         failed |-> r.failed]
                   : r \in {processTypeData(st, fault, parsed.value)}})
         : parsed \in {JSONparse(text)}})

RECURSIVE SeqsUpTo(_, _)
SeqsUpTo(S, n) ==
    IF n = 0 THEN {<<>>}
    ELSE LET shorter == SeqsUpTo(S, n - 1)
         IN shorter \cup {Append(s, x) : s \in {t \in shorter : Len(t) = n - 1}, x \in S}

\* The text of a JSON array
ArrayText(entries) == <<"[">> \o entries \o <<"]">>

\* The bodies clients send: every array of up to MaxBatch entries, top-level values
\* that are no array, and texts that are no JSON
Payloads ==
    {ArrayText(b) : b \in SeqsUpTo(EntryTokens, MaxBatch)}
    \cup {<<"{}">>, <<"\"ab\"">>, <<"5">>, <<"null">>}
    \cup {<<"not valid json">>, <<"[", "R1">>}

\* The number of JSON values in a text
Size(text) == Cardinality({i \in 1..Len(text) : text[i] \in ValueTokens})

Faults == TxnFault..MaxFaultStmt

(***************************************************************************)
(* State                                                                   *)
(***************************************************************************)
VARIABLES
    store,      \* the database
    reqs,       \* per request: its phase, what the client sends, how much it has sent,
                \* and the answer
    body,       \* per request: the `body` of its handler closure
    order,      \* the requests whose 'end' handler has run, in that order
    pre,        \* the store before the last 'end' handler ran
    observed    \* what the last query returned

vars == <<store, reqs, body, order, pre, observed>>

\* The page that runs the instrumented program (the runtime library)
VARIABLES
    host,           \* which runtime the page loaded, its transport, the plugin's options
    now,            \* the page's clock, in units of TimeUnit milliseconds
    batch,          \* inline runtime: window.__typewiz_batch
    typewiz_logs,   \* inline runtime: window.__typewiz_logs
    batch_timer,    \* inline runtime: window.__typewiz_batch_timer (and when it is due)
    logs,           \* plugin runtime: logs, in insertion order
    trackedObjects, \* plugin runtime: the WeakMap of track()
    timer,          \* plugin runtime: $_$twiz.timer (and when it is due next)
    posts,          \* the requests the page has dispatched to the collector
    calls,          \* the $_$twiz calls made so far
    flushes,        \* how many times a flush callback has run
    app,            \* the instrumented function that ran last
    build           \* the file the build instrumented last, and what it was given back

rtvars == <<host, now, batch, typewiz_logs, batch_timer, logs, trackedObjects, timer,
            posts, calls, flushes, app, build>>

\* No file has been instrumented
NoBuild == [source |-> <<>>, filename |-> "", done |-> FALSE, output |-> <<>>]

\* No page is open
NotLoaded ==
    /\ host = [runtime |-> "none", transport |-> FALSE, online |-> FALSE,
               reportInterval |-> 0]
    /\ now = 0
    /\ batch = <<>>
    /\ typewiz_logs = <<>>
    /\ batch_timer = [set |-> FALSE, due |-> 0]
    /\ logs = <<>>
    /\ trackedObjects = <<>>
    /\ timer = [set |-> FALSE, due |-> 0]
    /\ posts = <<>>
    /\ calls = <<>>
    /\ flushes = 0
    /\ app = [ran |-> FALSE, threw |-> FALSE]
    /\ build = NoBuild

Reqs == 1..MaxReqs

RECURSIVE SizeSent(_, _)
SizeSent(rq, r) == IF r = 0 THEN 0 ELSE Size(rq[r].payload) + SizeSent(rq, r - 1)

Init ==
    /\ store = EmptyStore
    /\ reqs = [r \in Reqs |-> [phase |-> "idle", payload |-> <<>>, sent |-> 0, status |-> 0,
                               rejected |-> FALSE, failed |-> FALSE]]
    /\ body = [r \in Reqs |-> <<>>]
    /\ order = <<>>
    /\ pre = EmptyStore
    /\ observed = getStats(EmptyStore)

\* body += chunk, with one buffer for all the requests in flight
AppendChunkShared(b, r, chunk) == [q \in DOMAIN b |-> b[q] \o chunk]

\* body += chunk (line 349)
AppendChunk(b, r, chunk) == [b EXCEPT ![r] = @ \o chunk]

\* A request arrives: the handler of middleware() runs up to req.on(...) (lines 345-351)
Begin(r, p) ==
    /\ reqs[r].phase = "idle"
    /\ \A q \in 1..(r - 1) : reqs[q].phase # "idle"
    /\ SizeSent(reqs, MaxReqs) + Size(p) <= MaxEntries
    /\ reqs' = [reqs EXCEPT ![r].phase = "open", ![r].payload = p]
    /\ body' = [body EXCEPT ![r] = <<>>]
    /\ UNCHANGED <<store, order, pre, observed, rtvars>>

\* A 'data' event: the next c tokens of the body arrive
Data(r, c) ==
    /\ reqs[r].phase = "open"
    /\ reqs[r].sent + c <= Len(reqs[r].payload)
    /\ body' = AppendChunk(body, r, SubSeq(reqs[r].payload, reqs[r].sent + 1, reqs[r].sent + c))
    /\ reqs' = [reqs EXCEPT ![r].sent = @ + c]
    /\ UNCHANGED <<store, order, pre, observed, rtvars>>

\* The 'end' event; fault is the write the store rejects during it (0: none)
End(r, fault) ==
    /\ reqs[r].phase = "open"
    /\ reqs[r].sent = Len(reqs[r].payload)
    /\ \E out \in {onEnd(store, body[r], fault)} :
          /\ store' = out.st
          /\ reqs' = [reqs EXCEPT ![r].phase = "done", ![r].status = out.status,
                                  ![r].rejected = out.rejected, ![r].failed = out.failed]
    /\ pre' = store
    /\ order' = Append(order, r)
    /\ UNCHANGED <<body, observed, rtvars>>

\* GET /__typewiz_stats between two events
Query ==
    /\ observed' = getStats(store)
    /\ UNCHANGED <<store, reqs, body, order, pre, rtvars>>

Next ==
    \/ \E r \in Reqs, p \in Payloads : Begin(r, p)
    \/ \E r \in Reqs, c \in 1..MaxChunk : Data(r, c)
    \/ \E r \in Reqs, fault \in Faults : End(r, fault)
    \/ Query

\* The collector is started and no page is open
InitSpec == Init /\ NotLoaded

Spec == InitSpec /\ [][Next]_<<vars, rtvars>>

(***************************************************************************)
(* Vocabulary of the claims                                                *)
(***************************************************************************)
Ended == order # <<>>
Last == reqs[order[Len(order)]]
\* The value the client of the last ended request sent (Undefined: no JSON)
LastDoc == JSONparse(Last.payload).value
IsBatch(text) == JSONparse(text).ok /\ JSONparse(text).value.k = "array"
EntriesOf(text) == IF IsBatch(text) THEN JSONparse(text).value.v ELSE <<>>

\* The fields of an entry in either form of the wire format
FieldOf(entry, i, key) == IF entry.k = "array" THEN Idx(entry, i) ELSE Get(entry, key)
FilenameOf(entry) == FieldOf(entry, 0, K_filename)
OffsetOf(entry) == FieldOf(entry, 1, K_offset)
TypesOf(entry) == FieldOf(entry, 2, K_types)
MetadataOf(entry) == FieldOf(entry, 3, K_metadata)
KeyOf(entry) == <<FilenameOf(entry), OffsetOf(entry)>>

\* A record of the wire format: [filename, offset, value_list, metadata] or the keyed form
IsRecord(entry) ==
    /\ entry.k \in {"array", "object"}
    /\ entry.k = "array" => Len(entry.v) = 4
    /\ FilenameOf(entry).k = "string" /\ FilenameOf(entry).v # <<>>
    /\ OffsetOf(entry).k = "number"
    /\ TypesOf(entry).k = "array"
    /\ \A i \in 1..Len(TypesOf(entry).v) :
            TypesOf(entry).v[i].k = "array" /\ Len(TypesOf(entry).v[i].v) = 2
    /\ MetadataOf(entry).k = "object"

WellFormedBatch(text) ==
    IsBatch(text) /\ \A i \in 1..Len(EntriesOf(text)) : IsRecord(EntriesOf(text)[i])

\* The (filename, offset) pairs that occur in a body
PairsOf(text) ==
    {KeyOf(EntriesOf(text)[i]) :
        i \in {j \in 1..Len(EntriesOf(text)) :
                /\ EntriesOf(text)[j].k \in {"array", "object"}
                /\ FilenameOf(EntriesOf(text)[j]).k = "string"
                /\ FilenameOf(EntriesOf(text)[j]).v # <<>>
                /\ OffsetOf(EntriesOf(text)[j]).k = "number"}}

EntityKeys(st) == {<<r.filename, r.offset_position>> : r \in st.entities}

\* Every row of the store by table and natural key, with its observation count
KeyCounts(st) ==
    [entities |-> {<<r.filename, r.offset_position, r.observation_count>> : r \in st.entities},
     value_observations |->
        {<<r.entity_id, r.value_hash, r.context, r.observation_count>> :
            r \in st.value_observations},
     string_literals |->
        {<<r.entity_id, r.string_value, r.context, r.observation_count>> :
            r \in st.string_literals},
     object_shapes |->
        {<<r.entity_id, r.shape_signature, r.observation_count>> : r \in st.object_shapes},
     hof_relationships |->
        {<<r.callback_entity_id, r.callee_name, r.callee_arg_index, r.observation_count>> :
            r \in st.hof_relationships}]

\* The store with every observation count multiplied by n
Scaled(st, n) ==
    [entities |-> {[r EXCEPT !.observation_count = @ * n] : r \in st.entities},
     value_observations |->
        {[r EXCEPT !.observation_count = @ * n] : r \in st.value_observations},
     string_literals |-> {[r EXCEPT !.observation_count = @ * n] : r \in st.string_literals},
     object_shapes |-> {[r EXCEPT !.observation_count = @ * n] : r \in st.object_shapes},
     hof_relationships |->
        {[r EXCEPT !.observation_count = @ * n] : r \in st.hof_relationships}]

AllCounts(st) ==
    {r.observation_count : r \in st.entities} \cup
    {r.observation_count : r \in st.value_observations} \cup
    {r.observation_count : r \in st.string_literals} \cup
    {r.observation_count : r \in st.object_shapes} \cup
    {r.observation_count : r \in st.hof_relationships}

Perms(n) == {f \in [1..n -> 1..n] : \A i, j \in 1..n : f[i] = f[j] => i = j}

\* Every request so far has ended, all sent the same array, all were answered with
\* success, and the store rejected no write
Copies ==
    /\ Ended
    /\ \A r \in Reqs : reqs[r].phase \in {"idle", "done"}
    /\ \A i \in 1..Len(order) :
        /\ reqs[order[i]].payload = Last.payload
        /\ reqs[order[i]].status = 200
        /\ ~reqs[order[i]].rejected
    /\ IsBatch(Last.payload)

\* The last ingest was one of an array, was answered with success, and the store
\* rejected no write during it
Ingested == Ended /\ IsBatch(Last.payload) /\ Last.status = 200 /\ ~Last.rejected

(***************************************************************************)
(* C1                                                                      *)
(***************************************************************************)
\* C1: batch ingest is all-or-nothing: when the processing of a record of the batch
\* failed (a statement threw or the record could not be unpacked), the store is what
\* it was before the request and the request was not answered with success.
C1_AllOrNothing == (Ended /\ Last.failed) => (store = pre /\ Last.status # 200)

(***************************************************************************)
(* C2                                                                      *)
(***************************************************************************)
\* C2, as claimed: from the empty store, after N copies of one batch (ingests during
\* which the store rejects no write) every row of the five tables has
\* observation_count = N.
C2_CountIsN == Copies => AllCounts(store) \subseteq {Len(order)}

\* C2, amended: from the empty store, after N copies of one batch the store is the
\* store after one copy with every observation count multiplied by N: the same rows,
\* each with N times the number of upserts one copy makes to it, and no other row.
C2_CountIsNTimesOne ==
    Copies => store = Scaled(processTypeData(EmptyStore, 0, LastDoc).st, Len(order))

\* Two copies of a batch that upserts one row twice have been ingested
C2_Witness ==
    /\ Copies
    /\ Len(order) = 2
    /\ \E r \in store.entities : r.observation_count = 2
    /\ \E r \in store.object_shapes : r.observation_count = 4

(***************************************************************************)
(* C3                                                                      *)
(***************************************************************************)
\* The context under which the values of an entry are stored: <context>_in_<functionName>
\* when the function name is known, else the context ('unknown' when there is none)
ContextOf(entry) ==
    LET context == OrElse(Get(MetadataOf(entry), K_context), JStr(S_unknown))
        functionName == Get(MetadataOf(entry), K_functionName)
    IN IF Falsy(functionName) THEN context
       ELSE JStr(ToStr(context) \o S_in \o ToStr(functionName))

\* The key of the value-observation row of a value of an entry
RowKeyOf(entry, value) ==
    <<KeyOf(entry), hashValue(serializeLiteralValue(value, getValueType(value))),
      ContextOf(entry)>>

\* The (entry, value) positions of a body, and the row key of each
Positions(text) ==
    UNION {{<<i, j>> : j \in 1..(IF TypesOf(EntriesOf(text)[i]).k = "array"
                                  THEN Len(TypesOf(EntriesOf(text)[i]).v) ELSE 0)} :
           i \in 1..Len(EntriesOf(text))}
ValueAt(text, p) == Idx(TypesOf(EntriesOf(text)[p[1]]).v[p[2]], 0)
RowKeyAt(text, p) == RowKeyOf(EntriesOf(text)[p[1]], ValueAt(text, p))

RowsAt(st, key) ==
    {r \in st.value_observations : <<r.entity_id, r.value_hash, r.context>> = key}

\* The natural keys of the rows of every table
Keys(st) ==
    [entities |-> EntityKeys(st),
     value_observations |->
        {<<r.entity_id, r.value_hash, r.context>> : r \in st.value_observations},
     string_literals |->
        {<<r.entity_id, r.string_value, r.context>> : r \in st.string_literals},
     object_shapes |-> {<<r.entity_id, r.shape_signature>> : r \in st.object_shapes},
     hof_relationships |->
        {<<r.callback_entity_id, r.callee_name, r.callee_arg_index>> :
            r \in st.hof_relationships}]

\* C3: after a batch of records has been ingested and then replayed (the store
\* rejecting no write), the replay has added no row to any table, and every value
\* observation V at entity E that the batch holds once is stored as exactly one row
\* keyed (E, V.hash, V.context), with observation_count 2.
C3_Replay ==
    (Copies /\ Len(order) = 2 /\ WellFormedBatch(Last.payload)) =>
        /\ Keys(store) = Keys(pre)
        /\ \A p \in Positions(Last.payload) :
            (\A q \in Positions(Last.payload) :
                RowKeyAt(Last.payload, q) = RowKeyAt(Last.payload, p) => q = p)
            => /\ Cardinality(RowsAt(store, RowKeyAt(Last.payload, p))) = 1
               /\ \A r \in RowsAt(store, RowKeyAt(Last.payload, p)) : r.observation_count = 2

(***************************************************************************)
(* C4                                                                      *)
(***************************************************************************)
Permuted(entries, f) == [i \in 1..Len(entries) |-> entries[f[i]]]

DoneReqs == {r \in Reqs : reqs[r].phase = "done"}

\* The store after the bodies the clients of requests rs[1], rs[2], ... sent have been
\* ingested one after another, starting from the empty store
RECURSIVE SerialStore(_)
SerialStore(rs) ==
    IF rs = <<>> THEN EmptyStore
    ELSE onEnd(SerialStore(SubSeq(rs, 1, Len(rs) - 1)), reqs[rs[Len(rs)]].payload, 0).st

Orders(S) ==
    {f \in [1..Cardinality(S) -> S] : \A i, j \in 1..Cardinality(S) : f[i] = f[j] => i = j}

\* C6: with requests in flight at once, their chunks interleaved, and queries between
\* any two events: the last change of the store is one whole ingest of the body the
\* client of the request sent; and, when the store rejected no write, the store is the
\* result of ingesting the bodies of the ended requests one after another in some
\* order, and what the last query saw is the stats of such a store for some of the
\* ended requests.
C6_Serial ==
    /\ Ended => \E fault \in Faults : store = onEnd(pre, Last.payload, fault).st
    /\ (\A r \in Reqs : ~reqs[r].rejected) =>
            /\ \E f \in Orders(DoneReqs) : store = SerialStore(f)
            /\ \E S \in SUBSET DoneReqs :
                  \E f \in Orders(S) : observed = getStats(SerialStore(f))

\* Two requests were in flight at once, the second ended first, both changed the
\* store, and a query ran between the two 'end' events
C6_Witness ==
    /\ order = <<2, 1>>
    /\ \A r \in Reqs : reqs[r].status = 200 /\ ~reqs[r].rejected /\ Len(reqs[r].payload) > 2
    /\ pre # EmptyStore /\ store # pre
    /\ observed = getStats(pre)

(***************************************************************************)
(* C7                                                                      *)
(***************************************************************************)
\* C7: a body that is no JSON, or no array, or an array with an entry that is no record
\* of the wire format, is answered 400 and leaves the store as it was.
C7_MalformedIs400 ==
    (Ended /\ ~WellFormedBatch(Last.payload)) => (Last.status = 400 /\ store = pre)

(***************************************************************************)
(* C8                                                                      *)
(***************************************************************************)
\* C8: when the store rejects a write during the ingest of a well-formed batch, the
\* answer is 500.
C8_RejectedWriteIs500 ==
    (Ended /\ WellFormedBatch(Last.payload) /\ Last.rejected) => Last.status = 500

(***************************************************************************)
(* C9                                                                      *)
(***************************************************************************)
\* The records of the last batch for the entity of row e all lack metadata field key
AllLack(e, key) ==
    \A i \in 1..Len(LastDoc.v) :
        KeyOf(LastDoc.v[i]) = <<e.filename, e.offset_position>>
        => IsNull(Get(MetadataOf(LastDoc.v[i]), key))

\* C9: after the ingest of a well-formed batch (the store rejecting no write), an
\* entity stored before keeps entity_name, line_number, column_number, entity_type
\* when the records for it carry no functionName, lineNumber, columnNumber, context.
C9_NullKeepsColumn ==
    (Ingested /\ WellFormedBatch(Last.payload)) =>
        \A e \in pre.entities : \A r \in store.entities :
            (r.filename = e.filename /\ r.offset_position = e.offset_position) =>
                /\ AllLack(e, K_functionName) => r.entity_name = e.entity_name
                /\ AllLack(e, K_lineNumber) => r.line_number = e.line_number
                /\ AllLack(e, K_columnNumber) => r.column_number = e.column_number
                /\ AllLack(e, K_context) => r.entity_type = e.entity_type

(***************************************************************************)
(* C10                                                                     *)
(***************************************************************************)
\* C10: after the ingest of a well-formed batch (the store rejecting no write), every
\* (value, provenance) pair of every record, null values included, has exactly one
\* value-observation row keyed (entity, value_hash, context), of the value's type.
C10_EveryValueStored ==
    (Ingested /\ WellFormedBatch(Last.payload)) =>
        \A p \in Positions(Last.payload) :
            /\ Cardinality(RowsAt(store, RowKeyAt(Last.payload, p))) = 1
            /\ \A r \in RowsAt(store, RowKeyAt(Last.payload, p)) :
                    r.value_type = getValueType(ValueAt(Last.payload, p))

(***************************************************************************)
(* C11                                                                     *)
(***************************************************************************)
\* The last ingest ran as it does when the environment makes the store reject nothing
Unfaulted == Ended /\ store = onEnd(pre, Last.payload, 0).st

\* The record carries both calleeName and calleeArgIndex
CarriesHof(entry) ==
    /\ ~IsNull(Get(MetadataOf(entry), K_calleeName))
    /\ ~IsNull(Get(MetadataOf(entry), K_calleeArgIndex))

HofKeyOf(entry) ==
    <<KeyOf(entry), Get(MetadataOf(entry), K_calleeName),
      Get(MetadataOf(entry), K_calleeArgIndex)>>

HofKeys(st) ==
    {<<r.callback_entity_id, r.callee_name, r.callee_arg_index>> : r \in st.hof_relationships}

\* The observation count of the HOF row with a key (0: no such row)
HofCount(st, key) ==
    LET hit == {r \in st.hof_relationships :
                    <<r.callback_entity_id, r.callee_name, r.callee_arg_index>> = key}
    IN IF hit = {} THEN 0 ELSE (CHOOSE r \in hit : TRUE).observation_count

\* C11: after the ingest of a well-formed batch, the HOF row (entity, calleeName,
\* calleeArgIndex) of every record that carries both fields (calleeArgIndex 0 included)
\* has its count raised by one per such record (from 0: created with count 1), a record
\* lacking either field changes no HOF row, and for every record the entity row and a
\* value-observation row for each of its non-null values are stored.
C11_HofUpsert ==
    (Unfaulted /\ WellFormedBatch(Last.payload)) =>
        LET entries == EntriesOf(Last.payload)
            carrying == {i \in 1..Len(entries) : CarriesHof(entries[i])}
        IN /\ \A key \in HofKeys(store) \cup HofKeys(pre)
                         \cup {HofKeyOf(entries[i]) : i \in carrying} :
                HofCount(store, key) =
                    HofCount(pre, key)
                    + Cardinality({i \in carrying : HofKeyOf(entries[i]) = key})
           /\ \A i \in 1..Len(entries) : KeyOf(entries[i]) \in EntityKeys(store)
           /\ \A p \in Positions(Last.payload) :
                ~IsNull(ValueAt(Last.payload, p))
                => RowsAt(store, RowKeyAt(Last.payload, p)) # {}

(***************************************************************************)
(* The runtime library: the values a program passes to $_$twiz             *)
(***************************************************************************)
MaxCalls == 3
MaxTicks == 4

\* setTimeout(..., 2000) of the inline runtime; reportInterval || 1000 of the plugin
InlinePeriod == 2000
DefaultReportInterval == 1000
\* The clock advances by the shortest period of the library
Quantum == DefaultReportInterval

\* Program values: a number, a BigInt, two distinct objects {a: 1}, an object that
\* refers to itself, an object with a getter that throws
V_one == "1"
V_big == "10n"
V_o1 == "o1"
V_o2 == "o2"
V_cyc == "cyc"
V_thr == "thr"
RtValues == {V_one, V_big, V_o1, V_o2, V_cyc, V_thr}

TypeOf(v) == IF v = V_one THEN "number" ELSE IF v = V_big THEN "bigint" ELSE "object"

Thrown == "throw"

\* JSON.stringify(v): the text, or Thrown (BigInt, a cycle, a throwing getter)
JSONstringify(v) ==
    IF v = V_one THEN "1"
    ELSE IF v \in {V_o1, V_o2} THEN "{\"a\":1}"
    ELSE Thrown

\* JSON.stringify(obj, replacer) of __typewiz_safe_stringify: the replacer cuts cycles
StringifyWithReplacer(v) ==
    IF v = V_cyc THEN "{\"self\":\"[Circular Reference]\"}" ELSE JSONstringify(v)

\* window.__typewiz_safe_stringify(obj): non-objects are returned as they are, objects
\* as the parse of their text, a failure as the placeholder string. The result is written
\* as its JSON text; a BigInt, which has none, stays V_big.
SerializationError == "\"[Serialization Error: boom]\""
typewiz_safe_stringify(v) ==
    IF TypeOf(v) # "object" THEN v
    ELSE IF StringifyWithReplacer(v) = Thrown THEN SerializationError
    ELSE StringifyWithReplacer(v)

\* getTypeName(value) of the plugin runtime, as JSON text (Thrown: reading a key threw)
getTypeName(v) ==
    IF v = V_one THEN "\"number\""
    ELSE IF v = V_big THEN "\"bigint\""
    ELSE IF v \in {V_o1, V_o2} THEN "\"{ a: number }\""
    ELSE IF v = V_cyc THEN "\"{ self: { self: { self: { self: { self: { self: any } } } } } }\""
    ELSE Thrown

\* A program point (filename, offset) and the metadata literal of a record
P1 == <<"a.js", 1>>
P2 == <<"a.js", 2>>
\* The fifth argument of $_$twiz: the object literal the instrumenter writes, or JSON text
Opts(form, md) == [form |-> form, md |-> md]

\* A record the instrumenter injected: the program point, the value of the expression
\* it observes (evaluable: the identifier is declared where the record stands), and
\* the fifth argument
Rec(point, value, evaluable, opts) ==
    [point |-> point, value |-> value, evaluable |-> evaluable, opts |-> opts]

NoProvenance == <<>>
CompositeValues == {v \in RtValues : TypeOf(v) = "object"}

(***************************************************************************)
(* The inline runtime (createTypeWizRuntime)                               *)
(***************************************************************************)
\* The position of a key in an object's keys (0: no such key)
KeyIndex(obj, key) ==
    IF \E i \in 1..Len(obj) : obj[i].key = key
    THEN CHOOSE i \in 1..Len(obj) : obj[i].key = key
    ELSE 0

\* window.__typewiz_logs[key].push([safeValue, null]), the key created when missing
PushLog(lg, key, safeValue) ==
    IF KeyIndex(lg, key) = 0
    THEN Append(lg, [key |-> key, values |-> <<safeValue>>])
    ELSE [lg EXCEPT ![KeyIndex(lg, key)].values = Append(@, safeValue)]

\* if (!window.__typewiz_batch_timer) ... = setTimeout(..., 2000)
StartBatchTimer(tm, t) == IF tm.set THEN tm ELSE [set |-> TRUE, due |-> t + InlinePeriod]

\* window.$_$twiz(name, value, offset, filename, metadata), called at time t; id numbers
\* the call. s holds the three globals of the runtime.
InlineTwiz(s, id, rec, t) ==
    [typewiz_logs |-> PushLog(s.typewiz_logs, rec.point, typewiz_safe_stringify(rec.value)),
     batch |-> Append(s.batch, [id |-> id, point |-> rec.point,
                                value |-> typewiz_safe_stringify(rec.value),
                                metadata |-> rec.opts]),
     batch_timer |-> StartBatchTimer(s.batch_timer, t)]

\* JSON.stringify(window.__typewiz_batch) throws when a value has no JSON form
BatchSerializable(b) == \A i \in 1..Len(b) : b[i].value # V_big

(***************************************************************************)
(* The plugin runtime (getEnhancedTypeCollectorSnippet)                    *)
(***************************************************************************)
\* opts = JSON.parse(optsJson), {} when that throws (an object is no JSON text)
ParseOpts(opts) == IF opts.form = "json" THEN opts.md ELSE "{}"

\* trackedObjects.get(value)
objectDeclaration(tracked, value) ==
    IF value \in DOMAIN tracked THEN tracked[value] ELSE NoProvenance

\* shouldUseType: the text is not usable as the stored value
shouldUseType(serializedValue) == serializedValue \in {Thrown, "{}", "[]"}

\* valueToStore, as JSON text; Thrown when getTypeName throws (in the main path and in
\* the fallback alike, so that the value is skipped)
valueToStore(value) ==
    IF shouldUseType(JSONstringify(value)) THEN getTypeName(value) ELSE JSONstringify(value)

\* logs[index].add(valueSpec): a Set keeps the first of equal strings (ids: the calls
\* whose value that string stands for)
AddValueSpec(values, spec) ==
    IF \E i \in 1..Len(values) : values[i].text = spec.text /\ values[i].prov = spec.prov
    THEN [values EXCEPT ![CHOOSE i \in 1..Len(values) :
                              values[i].text = spec.text /\ values[i].prov = spec.prov].ids =
                            @ \cup spec.ids]
    ELSE Append(values, spec)

\* $_$twiz(name, value, pos, filename, optsJson) of the plugin runtime
PluginTwiz(lg, tracked, id, rec) ==
    The({The({IF valueToStore(rec.value) = Thrown
              THEN withKey
              ELSE [withKey EXCEPT ![KeyIndex(withKey, index)].values =
                        AddValueSpec(@, [id |-> id, ids |-> {id},
                                         text |-> valueToStore(rec.value),
                                         prov |-> objectDeclaration(tracked, rec.value)])]
              : withKey \in {IF KeyIndex(lg, index) = 0
                             THEN Append(lg, [key |-> index, values |-> <<>>])
                             ELSE lg}})
         : index \in {<<rec.point, ParseOpts(rec.opts)>>}})

\* $_$twiz.track(value, filename, offset)
track(tracked, value, prov) ==
    IF TypeOf(value) = "object"
    THEN [v \in DOMAIN tracked \cup {value} |-> IF v = value THEN prov ELSE tracked[v]]
    ELSE tracked

(***************************************************************************)
(* The page: records run, time passes, the flush callbacks fire            *)
(***************************************************************************)
M1 == "{\"functionName\":\"f\"}"
M2 == "{\"functionName\":\"g\"}"

\* The records of the instrumented program
Records ==
    {Rec(P1, V_one, TRUE, opts) : opts \in {Opts("object", M1), Opts("json", M1),
                                             Opts("json", M2)}}
    \cup {Rec(P2, v, TRUE, Opts("object", M1)) : v \in {V_o1, V_o2, V_cyc, V_thr}}
    \cup {Rec(P1, V_big, TRUE, Opts("object", M1)),
          Rec(P2, V_one, FALSE, Opts("object", M1))}

\* What the host's fetch or XMLHttpRequest runs while a request is being dispatched:
\* nothing, or a function of the program that carries a record
Reentries == {<<>>, <<Rec(P2, V_o1, TRUE, Opts("object", M1))>>}

TrackedAt == <<"a.js", 7>>

\* The plugin's options.reportInterval (0: not given)
ReportIntervals == {0, 3 * Quantum}

\* this.reportInterval = options.reportInterval || 1000
reportInterval(h) == IF h.reportInterval = 0 THEN DefaultReportInterval ELSE h.reportInterval

\* transport: fetch (inline) or XMLHttpRequest (plugin) is defined; online: the requests
\* the page dispatches reach the collector
Host(runtime, transport, online, ri) ==
    [runtime |-> runtime, transport |-> transport, online |-> online, reportInterval |-> ri]

Hosts ==
    {Host("inline", TRUE, online, 0) : online \in BOOLEAN}
    \cup {Host("inline", FALSE, FALSE, 0)}
    \cup {Host("plugin", TRUE, online, 0) : online \in BOOLEAN}
    \cup {Host("plugin", TRUE, TRUE, ri) : ri \in ReportIntervals}
    \cup {Host("plugin", FALSE, FALSE, 0)}
    \cup {Host("none", TRUE, TRUE, 0)}

\* The page has loaded its scripts: the runtime is set up, and the reporter snippet of
\* the plugin has started its interval
Loaded ==
    /\ host \in Hosts
    /\ now = 0
    /\ batch = <<>>
    /\ typewiz_logs = <<>>
    /\ batch_timer = [set |-> FALSE, due |-> 0]
    /\ logs = <<>>
    /\ trackedObjects = <<>>
    /\ timer = IF host.runtime = "plugin"
               THEN [set |-> TRUE, due |-> reportInterval(host)]
               ELSE [set |-> FALSE, due |-> 0]
    /\ posts = <<>>
    /\ calls = <<>>
    /\ flushes = 0
    /\ app = [ran |-> FALSE, threw |-> FALSE]
    /\ build = NoBuild

InitRT == Init /\ Loaded

\* The globals a $_$twiz call may change
Globals ==
    [batch |-> batch, typewiz_logs |-> typewiz_logs, batch_timer |-> batch_timer,
     logs |-> logs, calls |-> calls]

\* The call of $_$twiz inside a record, by the runtime the page has loaded
Twiz(s, rec, reentrant) ==
    The({IF host.runtime = "inline"
         THEN The({[s EXCEPT !.batch = out.batch, !.typewiz_logs = out.typewiz_logs,
                             !.batch_timer = out.batch_timer, !.calls = Append(@, call)]
                   : out \in {InlineTwiz(s, Len(s.calls) + 1, rec, now)}})
         ELSE [s EXCEPT !.logs = PluginTwiz(@, trackedObjects, Len(s.calls) + 1, rec),
                        !.calls = Append(@, call)]
         : call \in {[rec |-> rec, epoch |-> flushes, at |-> now, reentrant |-> reentrant,
                      prov |-> IF rec.value \in DOMAIN trackedObjects
                               THEN trackedObjects[rec.value] ELSE NoProvenance]}})

\* Evaluating $_$twiz(name, value, ...) throws a ReferenceError when the value's
\* identifier or $_$twiz itself is not defined
CallThrows(rec) == ~rec.evaluable \/ host.runtime = "none"

\* A record without its guard: the bare call statement
BareCall(threw) == threw

\* try { $_$twiz(...) } catch (e) {}: what the statement throws into the function
createTypeWizCall(threw) == FALSE

\* The records the host runs during a dispatch
RECURSIVE Reenter(_, _)
Reenter(s, recs) ==
    IF recs = <<>> THEN s
    ELSE IF CallThrows(Head(recs)) THEN Reenter(s, Tail(recs))
    ELSE The({Reenter(s1, Tail(recs)) : s1 \in {Twiz(s, Head(recs), TRUE)}})

\* An instrumented function is called: its record runs, then its body
Call(rec) ==
    /\ Len(calls) < MaxCalls
    /\ app' = [ran |-> TRUE, threw |-> createTypeWizCall(CallThrows(rec))]
    /\ \E s \in {IF CallThrows(rec) THEN Globals ELSE Twiz(Globals, rec, FALSE)} :
          /\ batch' = s.batch
          /\ typewiz_logs' = s.typewiz_logs
          /\ batch_timer' = s.batch_timer
          /\ logs' = s.logs
          /\ calls' = s.calls
    /\ UNCHANGED <<host, now, trackedObjects, timer, posts, flushes, build, vars>>

\* The program calls $_$twiz.track (plugin runtime)
Track(value, prov) ==
    /\ host.runtime = "plugin"
    /\ Len(calls) < MaxCalls
    /\ trackedObjects' = track(trackedObjects, value, prov)
    /\ UNCHANGED <<host, now, batch, typewiz_logs, batch_timer, logs, timer, posts, calls,
                   flushes, app, build, vars>>

\* Time passes, unless a timer is due
Tick ==
    /\ now < MaxTicks * Quantum
    /\ Len(calls) < MaxCalls \/ batch # <<>> \/ logs # <<>>
    /\ ~(batch_timer.set /\ now >= batch_timer.due)
    /\ ~(timer.set /\ now >= timer.due)
    /\ now' = now + Quantum
    /\ UNCHANGED <<host, batch, typewiz_logs, batch_timer, logs, trackedObjects, timer,
                   posts, calls, flushes, app, build, vars>>

\* The decisions of a flush callback that clears without the condition of line 428
onTimeoutAlways(b, transport) == [post |-> FALSE, clear |-> TRUE]

\* The decisions of a flush callback that keeps what it has sent
onTimeoutKeep(b, transport) ==
    [post |-> Len(b) > 0 /\ transport /\ BatchSerializable(b), clear |-> FALSE]

\* The setTimeout callback of the inline runtime: whether fetch is called with the
\* batch's text, and whether the batch is replaced by []
onTimeout(b, transport) ==
    IF Len(b) > 0 /\ transport
    THEN [post |-> BatchSerializable(b), clear |-> TRUE]
    ELSE [post |-> FALSE, clear |-> FALSE]

\* The setInterval callback of the reporter: whether xhr.send is reached with the text
\* of get(), and whether clear() is (new XMLHttpRequest() throws without a transport)
onInterval(data, transport) ==
    IF Len(data) > 0 /\ transport
    THEN [post |-> TRUE, clear |-> TRUE]
    ELSE [post |-> FALSE, clear |-> FALSE]

\* A dispatched request: what it carries, when it left, and whether it will succeed
Post(bodyOf) == [body |-> bodyOf, at |-> now, epoch |-> flushes, ok |-> host.online]

\* The flush timer of the inline runtime expires; re is what the host's fetch runs
Timeout(re) ==
    /\ host.runtime = "inline"
    /\ batch_timer.set /\ now >= batch_timer.due
    /\ Len(calls) + Len(re) <= MaxCalls
    /\ \E d \in {onTimeout(batch, host.transport)} :
          /\ d.post \/ re = <<>>
          /\ posts' = IF d.post THEN Append(posts, Post(batch)) ELSE posts
          /\ \E s \in {IF d.post THEN Reenter(Globals, re) ELSE Globals} :
                /\ batch' = IF d.clear THEN <<>> ELSE s.batch
                /\ typewiz_logs' = s.typewiz_logs
                /\ calls' = s.calls
    /\ batch_timer' = [set |-> FALSE, due |-> 0]
    /\ flushes' = flushes + 1
    /\ UNCHANGED <<host, now, logs, trackedObjects, timer, app, build, vars>>

\* The reporter's interval fires (plugin runtime)
ReporterTick(re) ==
    /\ host.runtime = "plugin"
    /\ timer.set /\ now >= timer.due
    /\ Len(calls) + Len(re) <= MaxCalls
    /\ \E d \in {onInterval(logs, host.transport)} :
          /\ d.post \/ re = <<>>
          /\ posts' = IF d.post THEN Append(posts, Post(logs)) ELSE posts
          /\ \E s \in {IF d.post THEN Reenter(Globals, re) ELSE Globals} :
                /\ logs' = IF d.clear THEN <<>> ELSE s.logs
                /\ calls' = s.calls
    /\ timer' = [timer EXCEPT !.due = @ + reportInterval(host)]
    /\ flushes' = flushes + 1
    /\ UNCHANGED <<host, now, batch, typewiz_logs, batch_timer, trackedObjects, app, build, vars>>

NextRT ==
    \/ \E rec \in Records : Call(rec)
    \/ \E value \in {V_o1, V_one} : Track(value, TrackedAt)
    \/ Tick
    \/ \E re \in Reentries : Timeout(re)
    \/ \E re \in Reentries : ReporterTick(re)

SpecRT == InitRT /\ [][NextRT]_<<vars, rtvars>>

(***************************************************************************)
(* Vocabulary of the claims about the runtime library                      *)
(***************************************************************************)
\* The $_$twiz calls whose observation a buffer or a request body holds: a batch of the
\* inline runtime holds one record per call, the logs of the plugin runtime one value
\* per entry of a key's Set
IdsOf(buffer) ==
    IF host.runtime = "inline"
    THEN {buffer[i].id : i \in 1..Len(buffer)}
    ELSE UNION {{buffer[i].values[j].id : j \in 1..Len(buffer[i].values)} :
                    i \in 1..Len(buffer)}

\* The number of observations a buffer or a request body holds
CountOf(buffer) ==
    IF host.runtime = "inline" THEN Len(buffer)
    ELSE SumCounts({[k |-> i, observation_count |-> Len(buffer[i].values)] :
                        i \in 1..Len(buffer)})

\* What the runtime of the page buffers
Buffer == IF host.runtime = "inline" THEN batch ELSE logs

Posted == UNION {IdsOf(posts[i].body) : i \in 1..Len(posts)}

(***************************************************************************)
(* C12                                                                     *)
(***************************************************************************)
\* C12: delivery is at-most-once: no observation is held twice by a request, no two
\* requests the page has dispatched hold the same observation, and nothing that was
\* sent, whether the request succeeded or failed, is still buffered for a later request.
C12_AtMostOnce ==
    /\ \A i \in 1..Len(posts) : Cardinality(IdsOf(posts[i].body)) = CountOf(posts[i].body)
    /\ \A i, j \in 1..Len(posts) :
          i # j => IdsOf(posts[i].body) \cap IdsOf(posts[j].body) = {}
    /\ IdsOf(Buffer) \cap Posted = {}

\* A request failed, and a later request was dispatched
C12_Witness ==
    /\ Len(posts) >= 2
    /\ ~posts[1].ok
    /\ IdsOf(posts[1].body) # {} /\ IdsOf(posts[2].body) # {}

(***************************************************************************)
(* C13                                                                     *)
(***************************************************************************)
\* The request dispatched by the flush callback that was running when call i was made
DispatchOf(i) == {p \in 1..Len(posts) : posts[p].epoch = calls[i].epoch}

\* C13: an observation recorded while a flush callback is dispatching its request is
\* not part of the request being dispatched and is not lost: it is still buffered for
\* the next request, or a later request has carried it.
C13_FreshBufferBeforeDispatch ==
    \A i \in 1..Len(calls) :
        calls[i].reentrant =>
            /\ \A p \in DispatchOf(i) : i \notin IdsOf(posts[p].body)
            /\ i \in IdsOf(Buffer) \/ i \in Posted

(***************************************************************************)
(* C14                                                                     *)
(***************************************************************************)
\* C14: on a page with the inline runtime and a transport, the flush timer is started
\* only by the first observation after the previous flush (the buffer was empty and now
\* holds that observation), a pending timer is never restarted, and the step in which
\* the timer expires dispatches one request that carries exactly the buffered
\* observations and leaves the buffer empty.
C14_SingleShotTimer ==
    [][(host.runtime = "inline" /\ host.transport) =>
          /\ (~batch_timer.set /\ batch_timer'.set) => (batch = <<>> /\ Len(batch') = 1)
          /\ (batch_timer.set /\ batch_timer'.set) => batch_timer'.due = batch_timer.due
          /\ (batch_timer.set /\ ~batch_timer'.set) =>
                /\ Len(posts') = Len(posts) + 1
                /\ posts'[Len(posts')].body = batch
                /\ batch' = <<>>
      ]_<<vars, rtvars>>

(***************************************************************************)
(* C15                                                                     *)
(***************************************************************************)
\* C15: on a page without a transport, every step in which a flush callback runs leaves
\* the buffer as it was: nothing buffered is dropped, at the first expiry and at every
\* later one.
C15_NoTransportRetains ==
    [][(~host.transport /\ flushes' # flushes) => (batch' = batch /\ logs' = logs)
      ]_<<vars, rtvars>>

\* The flush timer has expired twice on a page without a transport, with observations
\* buffered before each expiry
C15_Witness ==
    /\ host.runtime = "inline" /\ ~host.transport
    /\ flushes >= 2
    /\ \E i, j \in IdsOf(batch) : calls[i].epoch = 0 /\ calls[j].epoch = 1

(***************************************************************************)
(* C16                                                                     *)
(***************************************************************************)
\* The program point of an entry of a buffer or of a request body
PointOf(entry) == IF host.runtime = "inline" THEN entry.point ELSE entry.key[1]

\* The serialised values an entry holds, in order
ValuesOf(entry) ==
    IF host.runtime = "inline" THEN <<entry.value>>
    ELSE [j \in 1..Len(entry.values) |-> <<entry.values[j].text, entry.values[j].prov>>]

\* At most one entry per (filename, offset), and no value twice within an entry
Deduplicated(buffer) ==
    /\ \A i, j \in 1..Len(buffer) : PointOf(buffer[i]) = PointOf(buffer[j]) => i = j
    /\ \A i \in 1..Len(buffer) :
          \A j, k \in 1..Len(ValuesOf(buffer[i])) :
              ValuesOf(buffer[i])[j] = ValuesOf(buffer[i])[k] => j = k

\* C16: what the runtime buffers between two flushes, its local logs, and every request
\* it has dispatched hold at most one entry per (filename, offset) and no serialised
\* value twice within an entry, however often $_$twiz was called at a program point and
\* whatever metadata the calls carried.
C16_KeyedSetOfValues ==
    /\ Deduplicated(Buffer)
    /\ \A i \in 1..Len(typewiz_logs) :
          \A j, k \in 1..Len(typewiz_logs[i].values) :
              typewiz_logs[i].values[j] = typewiz_logs[i].values[k] => j = k
    /\ \A p \in 1..Len(posts) : Deduplicated(posts[p].body)

(***************************************************************************)
(* C17                                                                     *)
(***************************************************************************)
\* The observations a buffer or a request body holds: the call each stands for, and
\* the stored value as JSON text
Slots(buffer) ==
    IF host.runtime = "inline"
    THEN {[id |-> buffer[i].id, text |-> buffer[i].value] : i \in 1..Len(buffer)}
    ELSE UNION {UNION {{[id |-> k, text |-> buffer[i].values[j].text] :
                           k \in buffer[i].values[j].ids} :
                       j \in 1..Len(buffer[i].values)} : i \in 1..Len(buffer)}

Sent == UNION {Slots(posts[p].body) : p \in 1..Len(posts)}

\* The serialiser throws for the value: JSON.stringify in the plugin runtime; in the
\* inline runtime the stringify of __typewiz_safe_stringify, or that of the batch
SerialisationFails(v) ==
    IF host.runtime = "inline"
    THEN StringifyWithReplacer(v) = Thrown
    ELSE JSONstringify(v) = Thrown

\* The strings the runtimes substitute for a value
PlaceholderStrings == ({SerializationError} \cup {getTypeName(v) : v \in RtValues}) \ {Thrown}

\* C17: for every $_$twiz call with a value whose serialisation fails, an observation
\* with a placeholder string in place of the value is buffered or has been sent, and
\* once a flush callback has run after the call on a page with a transport, a request
\* has carried it.
C17_PlaceholderShips ==
    \A i \in 1..Len(calls) :
        (SerialisationFails(calls[i].rec.value) /\ ~calls[i].reentrant) =>
            /\ \E s \in Slots(Buffer) \cup Sent : s.id = i /\ s.text \in PlaceholderStrings
            /\ (host.transport /\ calls[i].epoch < flushes) =>
                  \E s \in Sent : s.id = i /\ s.text \in PlaceholderStrings

ProvenanceSlots(buffer) ==
    IF host.runtime = "inline"
    THEN {[id |-> buffer[i].id, prov |-> NoProvenance] : i \in 1..Len(buffer)}
    ELSE UNION {UNION {{[id |-> k, prov |-> buffer[i].values[j].prov] :
                           k \in buffer[i].values[j].ids} :
                       j \in 1..Len(buffer[i].values)} : i \in 1..Len(buffer)}

ProvenanceSent == UNION {ProvenanceSlots(posts[p].body) : p \in 1..Len(posts)}

\* The call's value was stored by $_$twiz (the plugin runtime skips a value whose type
\* name cannot be computed)
Recorded(i) == host.runtime = "inline" \/ valueToStore(calls[i].rec.value) # Thrown

\* C19: every observation that is buffered or was sent carries the provenance pair its
\* value was tracked with when $_$twiz was called, and null when the value was not
\* tracked (a primitive never is); and every recorded observation of a tracked value is
\* emitted with that provenance by the flush that follows it on a page with a transport.
C19_ProvenanceAttached ==
    /\ \A s \in ProvenanceSlots(Buffer) \cup ProvenanceSent : s.prov = calls[s.id].prov
    /\ \A i \in 1..Len(calls) :
          calls[i].rec.value \notin CompositeValues => calls[i].prov = NoProvenance
    /\ \A i \in 1..Len(calls) :
          (calls[i].prov # NoProvenance /\ Recorded(i) /\ host.transport
           /\ calls[i].epoch < flushes) =>
              \E s \in ProvenanceSent : s.id = i /\ s.prov = calls[i].prov

(***************************************************************************)
(* C20                                                                     *)
(***************************************************************************)
\* The flush period the page was configured with, two seconds when none was
ConfiguredPeriod == IF host.reportInterval = 0 THEN 2000 ELSE host.reportInterval

\* The first of the observations a request carries
FirstOf(p) == CHOOSE i \in IdsOf(posts[p].body) : \A k \in IdsOf(posts[p].body) : i <= k

\* C20: every request leaves the configured flush period after the first observation
\* it carries was buffered: two seconds when no period is configured, the configured
\* reportInterval otherwise.
C20_ConfiguredPeriod ==
    \A p \in 1..Len(posts) :
        IdsOf(posts[p].body) # {} =>
            posts[p].at - calls[FirstOf(p)].at = ConfiguredPeriod

(***************************************************************************)
(* The query endpoints: registerLLMEndpoints (sqlite-collector.js) and     *)
(* the LLM API server of source-map-utils.js, which opens the same         *)
(* database file.  Query-string values are JavaScript strings or undefined.*)
(***************************************************************************)
MaxObs == 3

IsDigit(c) == \E i \in 1..10 : DigitChars[i] = c
DigitVal(c) == (CHOOSE i \in 1..10 : DigitChars[i] = c) - 1

RECURSIVE ParseDigits(_, _)
ParseDigits(s, acc) ==
    IF s = <<>> \/ ~IsDigit(Head(s)) THEN acc
    ELSE ParseDigits(Tail(s), acc * 10 + DigitVal(Head(s)))

\* parseInt(x): the integer the text of x begins with, NaN if it begins with none
parseInt(x) ==
    LET s == ToStr(x)
        neg == s # <<>> /\ Head(s) = "-"
        d == IF neg THEN Tail(s) ELSE s
    IN IF d = <<>> \/ ~IsDigit(Head(d)) THEN NaN
       ELSE JNum(IF neg THEN 0 - ParseDigits(d, 0) ELSE ParseDigits(d, 0))

\* const { name = value } = req.query
Default(x, value) == IF x = Undefined THEN value ELSE x

\* The rows of a result set in the order its statement yields them.  The ORDER BY
\* columns (last_seen, an aggregate) are not columns of the model; the order is a
\* fixed one, the same for the same set of rows.
RECURSIVE Ordered(_)
Ordered(rows) ==
    IF rows = {} THEN <<>>
    ELSE LET r == CHOOSE x \in rows : TRUE IN <<r>> \o Ordered(rows \ {r})

\* LIMIT ? OFFSET ? of SQLite: a negative LIMIT is no limit, a negative OFFSET is 0
SqlPage(rows, limit, offset) ==
    LET off == IF offset < 0 THEN 0 ELSE offset
        end == IF limit < 0 THEN Len(rows) ELSE Min(off + limit, Len(rows))
    IN SubSeq(rows, off + 1, end)

\* The driver binds NaN as NULL, and SQLite rejects a NULL LIMIT or OFFSET
S_mismatch == "datatype mismatch"

\* column LIKE '%needle%' for a needle without wildcard characters
Like(column, needle) == column.k = "string" /\ Includes(column.v, needle)

EntityId(e) == <<e.filename, e.offset_position>>

\* GET /__typewiz_entities (lines 1015-1059)
typewiz_entities(st, query) ==
    LET filename == query.filename
        limit == parseInt(Default(query.limit, JNum(100)))
        offset == parseInt(Default(query.offset, JNum(0)))
        matching == {e \in st.entities : Falsy(filename) \/ Like(e.filename, filename.v)}
        value_count(e) ==
            Cardinality({vo \in st.value_observations : vo.entity_id = EntityId(e)})
        entities == Ordered({e @@ [value_count |-> value_count(e)] : e \in matching})
        total == Cardinality(matching)
    IN IF limit = NaN \/ offset = NaN
       THEN [status |-> 500, body |-> [error |-> S_mismatch]]
       ELSE [status |-> 200,
             body |-> [entities |-> SqlPage(entities, limit.v, offset.v),
                       pagination |-> [offset |-> offset.v, limit |-> limit.v,
                                       total |-> total,
                                       hasMore |-> offset.v + limit.v < total]]]

\* The rows of entities JOIN value_observations that pass the filters of getFunctionCalls
CallRows(st, filepath, functionName) ==
    {p \in st.entities \X st.value_observations :
        /\ p[2].entity_id = EntityId(p[1])
        /\ Falsy(filepath) \/ Like(p[1].filename, filepath.v)
        /\ \/ Falsy(functionName)
           \/ Like(p[1].entity_name, functionName.v)
           \/ Includes(p[2].literal_value, functionName.v)}

\* SELECT COUNT(DISTINCT e.id) as total (lines 1104-1122)
CountDistinctEntities(joined) == Cardinality({EntityId(p[1]) : p \in joined})

\* getFunctionCalls(collector, filepath, functionName, offset, pageSize)
getFunctionCalls(st, filepath, functionName, offset, pageSize) ==
    LET joined == CallRows(st, filepath, functionName)
        group(p) == {q \in joined : /\ q[1] = p[1]
                                    /\ q[2].value_type = p[2].value_type
                                    /\ q[2].literal_value = p[2].literal_value}
        rows == Ordered({[filename |-> p[1].filename, entity_name |-> p[1].entity_name,
                           offset_position |-> p[1].offset_position,
                           line_number |-> p[1].line_number,
                           column_number |-> p[1].column_number,
                           observation_count |-> p[1].observation_count,
                           value_type |-> p[2].value_type,
                           literal_value |-> p[2].literal_value,
                           call_count |-> Cardinality(group(p))] : p \in joined})
        total == CountDistinctEntities(joined)
    IN IF offset = NaN \/ pageSize = NaN
       THEN [threw |-> TRUE, message |-> S_mismatch]
       ELSE [threw |-> FALSE,
             calls |-> SqlPage(rows, pageSize.v, offset.v),
             pagination |-> [offset |-> offset.v, pageSize |-> pageSize.v, total |-> total,
                             hasMore |-> offset.v + pageSize.v < total],
             filters |-> [filepath |-> OrElse(filepath, JNull),
                          functionName |-> OrElse(functionName, JNull)]]

\* GET /__typewiz_function_calls (lines 958-969)
typewiz_function_calls(st, query) ==
    LET result == getFunctionCalls(st, query.filepath, query.functionName,
                                   parseInt(Default(query.offset, JNum(0))),
                                   parseInt(Default(query.pageSize, JNum(50))))
    IN IF result.threw
       THEN [status |-> 500, body |-> [error |-> result.message]]
       ELSE [status |-> 200, body |-> [calls |-> result.calls,
                                       pagination |-> result.pagination,
                                       filters |-> result.filters]]
T_enum == "ENUM_CANDIDATE"
T_interface == "INTERFACE_CANDIDATE"
T_literal == "LITERAL_TYPE_CANDIDATE"
T_union == "UNION_CANDIDATE"
T_simple == "SIMPLE_TYPE"

\* CASE annotation_type WHEN ... END of the ORDER BY (lines 243-249)
AnnotationRank(annotation_type) ==
    CASE annotation_type = T_enum -> 1
      [] annotation_type = T_interface -> 2
      [] annotation_type = T_union -> 3
      [] annotation_type = T_literal -> 4
      [] OTHER -> 5

\* ORDER BY the rank of annotation_type, total_observations DESC
RECURSIVE OrderCandidates(_)
OrderCandidates(rows) ==
    IF rows = {} THEN <<>>
    ELSE LET before(a, b) ==
                \/ AnnotationRank(a.annotation_type) < AnnotationRank(b.annotation_type)
                \/ /\ AnnotationRank(a.annotation_type) = AnnotationRank(b.annotation_type)
                   /\ a.total_observations > b.total_observations
             r == CHOOSE x \in rows : \A y \in rows : ~before(y, x)
         IN <<r>> \o OrderCandidates(rows \ {r})

\* The CASE expression of the select list (lines 230-236) over one group of the
\* GROUP BY: the value_type of the group, its distinct literal values and its
\* distinct value types
AnnotationType(value_type, unique_values, distinct_types) ==
    IF value_type = S_string /\ unique_values >= 2 /\ unique_values <= 10 THEN T_enum
    ELSE IF value_type = S_object THEN T_interface
    ELSE IF value_type = S_number /\ unique_values < 10 THEN T_literal
    ELSE IF distinct_types > 1 THEN T_union
    ELSE T_simple

\* LLMQueryInterface.getAnnotationCandidates(minObservations); the column
\* example_values, a concatenation of the literals for display, is left out
getAnnotationCandidates(st, minObservations) ==
    LET joined == {p \in st.entities \X st.value_observations :
                        /\ p[2].entity_id = EntityId(p[1])
                        /\ p[2].value_type # S_undefined}
        group(p) == {q[2] : q \in {j \in joined : /\ j[1] = p[1]
                                                  /\ j[2].value_type = p[2].value_type}}
        row(p) == [filename |-> p[1].filename, offset_position |-> p[1].offset_position,
                   entity_name |-> p[1].entity_name, value_type |-> p[2].value_type,
                   unique_values |-> Cardinality({v.literal_value : v \in group(p)}),
                   total_observations |-> SumCounts(group(p)),
                   annotation_type |->
                        AnnotationType(p[2].value_type,
                                       Cardinality({v.literal_value : v \in group(p)}),
                                       Cardinality({v.value_type : v \in group(p)}))]
    IN OrderCandidates({r \in {row(p) : p \in joined} :
                            r.total_observations >= minObservations})

\* GET /api/annotation-candidates (lines 401-414)
api_annotation_candidates(st, query) ==
    LET minObservations == OrElse(parseInt(query.min_observations), JNum(5))
        candidates == getAnnotationCandidates(st, minObservations.v)
    IN [status |-> 200, body |-> [success |-> TRUE, count |-> Len(candidates),
                                  data |-> candidates]]

(***************************************************************************)
(* Ad-hoc SQL.  A statement is held as its whole text; what the driver     *)
(* (better-sqlite3) does with prepare(text).all() is given per statement.  *)
(***************************************************************************)
SqlText(t) == [k |-> "string", v |-> t]

Q_select == SqlText("SELECT filename FROM entities")
Q_syntax == SqlText("SELEC 1")
Q_multi == SqlText("DELETE FROM hof_relationships; SELECT 1")
Q_write == SqlText("DELETE FROM hof_relationships")
Q_returning == SqlText("DELETE FROM hof_relationships RETURNING callee_name")
Q_constraint == SqlText("UPDATE entities SET filename = NULL RETURNING filename")
Statements == {Q_select, Q_syntax, Q_multi, Q_write, Q_returning, Q_constraint}

\* db.prepare(query).all(): the rows, or the error thrown, and the store afterwards.
\* prepare rejects a text that is no string, that does not parse, or that holds more
\* than one statement; all() rejects a statement that returns no data before running
\* it; a statement that fails while it runs is rolled back.
PrepareAll(st, query) ==
    CASE query.k # "string" ->
            [threw |-> TRUE, message |-> "Expected first argument to be a string", st |-> st]
      [] query = Q_select ->
            [threw |-> FALSE, rows |-> Ordered({[filename |-> e.filename] : e \in st.entities}),
             st |-> st]
      [] query = Q_syntax ->
            [threw |-> TRUE, message |-> "near \"SELEC\": syntax error", st |-> st]
      [] query = Q_multi ->
            [threw |-> TRUE,
             message |-> "The supplied SQL string contains more than one statement",
             st |-> st]
      [] query = Q_write ->
            [threw |-> TRUE,
             message |-> "This statement does not return data. Use run() instead",
             st |-> st]
      [] query = Q_returning ->
            [threw |-> FALSE,
             rows |-> Ordered({[callee_name |-> h.callee_name] : h \in st.hof_relationships}),
             st |-> [st EXCEPT !.hof_relationships = {}]]
      [] query = Q_constraint ->
            IF st.entities = {}
            THEN [threw |-> FALSE, rows |-> <<>>, st |-> st]
            ELSE [threw |-> TRUE, message |-> "NOT NULL constraint failed: entities.filename",
                  st |-> st]

\* What a client posts: a text that is no JSON, or an object with or without a query
SqlBodies == {[json |-> FALSE, query |-> Undefined]}
             \cup {[json |-> TRUE, query |-> q] : q \in Statements \cup {Undefined}}

S_badjson == "Unexpected token o in JSON at position 1"

\* POST /__typewiz_sql: the 'end' handler (lines 1001-1011)
typewiz_sql(st, posted) ==
    IF ~posted.json
    THEN [status |-> 500, body |-> [error |-> S_badjson, success |-> FALSE], st |-> st]
    ELSE LET result == PrepareAll(st, posted.query)
         IN IF result.threw
            THEN [status |-> 500, body |-> [error |-> result.message, success |-> FALSE],
                  st |-> result.st]
            ELSE [status |-> 200, body |-> [success |-> TRUE, data |-> result.rows,
                                            count |-> Len(result.rows)],
                  st |-> result.st]

\* LLMQueryInterface.customQuery(sqlQuery, params)
customQuery(st, sqlQuery) ==
    LET result == PrepareAll(st, sqlQuery)
    IN IF result.threw
       THEN [result EXCEPT !.message = "SQL query failed: " \o @]
       ELSE result

\* POST /api/sql (lines 417-440); express.json has parsed the body, and a body that
\* is no JSON does not reach the handler
api_sql(st, posted) ==
    IF posted.query.k # "string" \/ posted.query.v = ""
    THEN [status |-> 400, body |-> [success |-> FALSE, error |-> "SQL query is required"],
          st |-> st]
    ELSE LET result == customQuery(st, posted.query)
         IN IF result.threw
            THEN [status |-> 400, body |-> [success |-> FALSE, error |-> result.message],
                  st |-> result.st]
            ELSE [status |-> 200, body |-> [success |-> TRUE, count |-> Len(result.rows),
                                            data |-> result.rows],
                  st |-> result.st]
(***************************************************************************)
(* The collector with its query endpoints as a state machine: batches are  *)
(* collected, and clients query between them.  `observed` holds the last   *)
(* answer with its request, `pre` the store before the last handler ran.   *)
(***************************************************************************)
V_no == JStr(<<"n", "o">>)
A1 == Tuple(F_a, JNum(1), JArr(<<Pair(V_ok, JNull), Pair(V_no, JNull)>>),
            JObj(<< <<K_functionName, JStr(<<"f">>)>>, <<K_context, JStr(<<"p">>)>> >>))
A2 == Tuple(F_a, JNum(2), JArr(<<Pair(JBool(TRUE), JNull), Pair(V_ok, JNull)>>),
            JObj(<< <<K_functionName, JStr(<<"g">>)>> >>))
A3 == Tuple(F_b, JNum(1), JArr(<<Pair(V_obj1, JNull), Pair(JNum(1), JNull)>>),
            JObj(<< <<K_calleeName, JStr(<<"m">>)>>, <<K_calleeArgIndex, JNum(0)>> >>))
Batches == {JArr(<<A1>>), JArr(<<A2>>), JArr(<<A3>>), JArr(<<A1, A2, A3>>)}

QText(chars) == JStr(chars)
Filenames == {Undefined, QText(<<"a", ".", "j", "s">>)}
FunctionNames == {Undefined, QText(<<"f">>)}
Offsets == {Undefined, QText(<<"1">>), QText(<<"-", "1">>)}
PageSizes == {Undefined, QText(<<"1">>), QText(<<"-", "1">>), QText(<<"1", "0", "0", "0">>),
              QText(<<"x">>)}
MinObservations == {Undefined, QText(<<"1">>), QText(<<"0">>)}

Answer(endpoint, request, response) ==
    [endpoint |-> endpoint, request |-> request, status |-> response.status,
     body |-> response.body]

\* POST /__typewiz_sqlite_report with the text of a batch that the store accepts:
\* the handler parses it, runs processTypeData(entries) and answers 200
Collect(entries) ==
    /\ SumCounts(store.entities) + Len(entries.v) <= MaxObs
    /\ store' = processTypeData(store, 0, entries).st
    /\ observed' = [status |-> 200]
    /\ pre' = store
    /\ UNCHANGED <<reqs, body, order, rtvars>>

TypewizEntities(query) ==
    /\ observed' = Answer("/__typewiz_entities", query, typewiz_entities(store, query))
    /\ pre' = store
    /\ UNCHANGED <<store, reqs, body, order, rtvars>>

TypewizFunctionCalls(query) ==
    /\ observed' = Answer("/__typewiz_function_calls", query,
                          typewiz_function_calls(store, query))
    /\ pre' = store
    /\ UNCHANGED <<store, reqs, body, order, rtvars>>

ApiAnnotationCandidates(query) ==
    /\ observed' = Answer("/api/annotation-candidates", query,
                          api_annotation_candidates(store, query))
    /\ pre' = store
    /\ UNCHANGED <<store, reqs, body, order, rtvars>>

TypewizSql(posted) ==
    /\ \E out \in {typewiz_sql(store, posted)} :
          /\ observed' = Answer("/__typewiz_sql", posted, out)
          /\ store' = out.st
    /\ pre' = store
    /\ UNCHANGED <<reqs, body, order, rtvars>>

ApiSql(posted) ==
    /\ posted.json
    /\ \E out \in {api_sql(store, posted)} :
          /\ observed' = Answer("/api/sql", posted, out)
          /\ store' = out.st
    /\ pre' = store
    /\ UNCHANGED <<reqs, body, order, rtvars>>

NextAPI ==
    \/ \E entries \in Batches : Collect(entries)
    \/ \E filename \in Filenames, limit \in PageSizes, offset \in Offsets :
          TypewizEntities([filename |-> filename, limit |-> limit, offset |-> offset])
    \/ \E filepath \in Filenames, functionName \in FunctionNames,
          offset \in Offsets, pageSize \in PageSizes :
          TypewizFunctionCalls([filepath |-> filepath, functionName |-> functionName,
                                offset |-> offset, pageSize |-> pageSize])
    \/ \E min_observations \in MinObservations :
          ApiAnnotationCandidates([min_observations |-> min_observations])
    \/ \E posted \in SqlBodies : TypewizSql(posted)
    \/ \E posted \in SqlBodies : ApiSql(posted)

\* The collector is started with an empty database; no page is modelled
InitAPI == Init /\ NotLoaded

SpecAPI == InitAPI /\ [][NextAPI]_<<vars, rtvars>>

\* The last handler that ran was a query endpoint, and `observed` is its answer
Answered == "endpoint" \in DOMAIN observed

(***************************************************************************)
(* Claims about the query endpoints                                        *)
(***************************************************************************)
AdHocEndpoints == {"/__typewiz_sql", "/api/sql"}

\* The last handler answered an ad-hoc query whose statement the driver rejected
\* (at prepare, at all(), or while it ran)
FailedAdHoc ==
    /\ Answered
    /\ observed.endpoint \in AdHocEndpoints
    /\ observed.request.json
    /\ observed.request.query \in Statements
    /\ PrepareAll(pre, observed.request.query).threw

\* C21: an ad-hoc query whose statement fails to prepare or to execute (a text with
\* more than one statement included) is answered, on every ad-hoc query endpoint,
\* with status 500 and the driver's message, and leaves the store as it was.
C21_FailedQueryIs500 ==
    FailedAdHoc =>
        /\ observed.status = 500
        /\ observed.body.error = PrepareAll(pre, observed.request.query).message
        /\ store = pre

PagedEndpoints == {"/__typewiz_entities", "/__typewiz_function_calls"}

\* The last handler answered a request to a paginated endpoint
PagedRequest == Answered /\ observed.endpoint \in PagedEndpoints

\* The page size and the rows of a paginated answer
PageSizeOf(answer) ==
    IF answer.endpoint = "/__typewiz_entities" THEN answer.body.pagination.limit
    ELSE answer.body.pagination.pageSize
RowsOf(answer) ==
    IF answer.endpoint = "/__typewiz_entities" THEN answer.body.entities
    ELSE answer.body.calls

\* C22: whatever offset and page size are requested (negative, above the maximum,
\* not a number), the answer of a paginated endpoint has a pagination block with
\* offset >= 0 and a page size of at most 100, and carries no more rows than that.
C22_PaginationBounded ==
    PagedRequest =>
        /\ observed.status = 200
        /\ observed.body.pagination.offset >= 0
        /\ PageSizeOf(observed) <= 100
        /\ Len(RowsOf(observed)) <= 100

\* The last handler answered a request to the entities endpoint
EntitiesRequest == Answered /\ observed.endpoint = "/__typewiz_entities"

\* The entities that match the filename filter of a request
Matching(st, request) ==
    {e \in st.entities : request.filename = Undefined \/ Like(e.filename, request.filename.v)}

\* The number a pagination parameter of the request asks for
Requested(x, default) == IF x = Undefined THEN default ELSE parseInt(x).v

\* C23: every answer of the entities endpoint carries offset, limit, total and
\* hasMore; offset and limit are those of the request (0 and 100 by default), total
\* is the number of entities that match the filename filter, the page holds at most
\* limit rows, and hasMore is true exactly when offset + limit < total.
C23_EntitiesPagination ==
    EntitiesRequest =>
        /\ observed.status = 200
        /\ observed.body.pagination.offset = Requested(observed.request.offset, 0)
        /\ observed.body.pagination.limit = Requested(observed.request.limit, 100)
        /\ observed.body.pagination.total = Cardinality(Matching(store, observed.request))
        /\ Len(observed.body.entities) <= observed.body.pagination.limit
        /\ observed.body.pagination.hasMore =
              (observed.body.pagination.offset + observed.body.pagination.limit
                  < observed.body.pagination.total)

\* The last handler answered a request to the annotation-candidates endpoint
CandidatesRequest == Answered /\ observed.endpoint = "/api/annotation-candidates"

\* The rows observed at the entity of a candidate row, and of its value_type
ObservedAt(st, row) ==
    {vo \in st.value_observations :
        /\ vo.entity_id = <<row.filename, row.offset_position>>
        /\ vo.value_type # S_undefined}
OfType(st, row) == {vo \in ObservedAt(st, row) : vo.value_type = row.value_type}
Distinct(rows) == Cardinality({vo.literal_value : vo \in rows})

\* The classification the rules give, the first matching rule deciding
Classified(st, row) ==
    IF row.value_type = S_string /\ Distinct(OfType(st, row)) \in 2..10 THEN T_enum
    ELSE IF row.value_type = S_object THEN T_interface
    ELSE IF row.value_type = S_number /\ Distinct(OfType(st, row)) < 10 THEN T_literal
    ELSE IF Cardinality({vo.value_type : vo \in ObservedAt(st, row)}) > 1 THEN T_union
    ELSE T_simple

\* C24: every candidate is classified by the first matching rule: string with 2 to 10
\* distinct values is an enum, object an interface, number with fewer than 10
\* distinct values a literal type, more than one distinct value_type observed at the
\* entity a union, anything else simple.
C24_FirstMatchingRule ==
    CandidatesRequest =>
        \A i \in 1..Len(observed.body.data) :
            observed.body.data[i].annotation_type = Classified(store, observed.body.data[i])

\* The last handler answered a request to the function-calls endpoint by a page;
\* the request asks for a page of one row or more from a non-negative offset
CallsPage ==
    /\ Answered
    /\ observed.endpoint = "/__typewiz_function_calls"
    /\ observed.status = 200
    /\ observed.body.pagination.offset >= 0
    /\ observed.body.pagination.pageSize >= 1

\* The rows the endpoint pages through: one per (entity, value_type, literal_value)
\* that passes the filters
MatchingCalls(st, request) ==
    {<<EntityId(p[1]), p[2].value_type, p[2].literal_value>> :
        p \in CallRows(st, request.filepath, request.functionName)}

\* C30: at the function-calls endpoint total counts the rows that are paged, one per
\* (entity, value_type, literal_value) that passes the filters, and hasMore is true
\* exactly when such rows exist beyond offset + pageSize.
C30_TotalCountsPagedRows ==
    CallsPage =>
        /\ observed.body.pagination.total
              = Cardinality(MatchingCalls(store, observed.request))
        /\ observed.body.pagination.hasMore =
              (observed.body.pagination.offset + observed.body.pagination.pageSize
                  < Cardinality(MatchingCalls(store, observed.request)))

(***************************************************************************)
(* C28                                                                     *)
(***************************************************************************)
\* The calls an entry of a request body stands for
CallsOf(entry) ==
    IF host.runtime = "inline" THEN {entry.id}
    ELSE UNION {entry.values[j].ids : j \in 1..Len(entry.values)}

\* The fourth element of an entry of a request body, as JSON text
FourthOf(entry) ==
    IF host.runtime = "inline"
    THEN (IF entry.metadata.form = "object" THEN entry.metadata.md
          ELSE "\"" \o entry.metadata.md \o "\"")
    ELSE entry.key[2]

\* C28: for every $_$twiz call that passes its metadata as an object, as instrumented
\* code does, the record a request carries for that call has that metadata, unchanged,
\* as its fourth element, whichever runtime is installed.
C28_MetadataUnchanged ==
    \A p \in 1..Len(posts) :
        \A e \in 1..Len(posts[p].body) :
            \A c \in CallsOf(posts[p].body[e]) :
                calls[c].rec.opts.form = "object"
                    => FourthOf(posts[p].body[e]) = calls[c].rec.opts.md

(***************************************************************************)
(* C29: the page also calls $_$twiz.clear()                                *)
(***************************************************************************)
\* window.$_$twiz.clear() of the inline runtime (lines 460-467); a call that finds
\* nothing to clear changes nothing
Clear ==
    /\ host.runtime = "inline"
    /\ typewiz_logs # <<>> \/ batch # <<>> \/ batch_timer.set
    /\ typewiz_logs' = <<>>
    /\ batch' = <<>>
    /\ batch_timer' = [set |-> FALSE, due |-> 0]
    /\ UNCHANGED <<host, now, logs, trackedObjects, timer, posts, calls, flushes, app, build, vars>>

NextClear == NextRT \/ Clear

SpecClear == InitRT /\ [][NextClear]_<<vars, rtvars>>

\* C29: in the inline runtime a non-empty batch buffer implies that a flush timer is
\* pending, after any interleaving of $_$twiz calls, expiries of the flush timer with
\* or without a transport, and clear() calls.
C29_BufferedImpliesTimer ==
    (host.runtime = "inline" /\ batch # <<>>) => batch_timer.set

(***************************************************************************)
(* The instrumenter: instrumentCodeWithAST                                 *)
(* (src/typewiz-enhanced/lib/ast-instrumenter.js).  A source text is the   *)
(* sequence of its top-level items: function-like constructs, each with    *)
(* the statements at the head of its body, or text that does not parse.    *)
(* The instrumented text is such a sequence too, with the runtime prelude  *)
(* as an item of its own and the injected statements in `records`.         *)
(***************************************************************************)
MaxItems == 2

Param(form, name) == [form |-> form, name |-> name]
\* x, y = 1, ...args, {a}, [b], {c} = {}
P_x == Param("Identifier", "x")
P_default == Param("AssignmentPattern", "y")
P_rest == Param("RestElement", "args")
P_object == Param("ObjectPattern", "")
P_array == Param("ArrayPattern", "")
P_patternDefault == Param("AssignmentPattern(ObjectPattern)", "")

\* An item of a source text.  keyType and key are the node's id or key; block tells
\* whether the body is a block statement; records are the injected statements.
Item(type, kind, keyType, key, params, block) ==
    [type |-> type, kind |-> kind, keyType |-> keyType, key |-> key, params |-> params,
     block |-> block, records |-> <<>>]

\* function f(x, y = 1) {}          function g() {}
\* const h = (x) => x               const k = () => {}
\* class C { m({a}, [b]) {} }       class C { constructor(...args) {} }
\* ({ o({c} = {}) {} })             ({ 1(x) {} })
\* xs.map(function (x) {})          function (
SourceItems ==
    {Item("FunctionDeclaration", "", "Identifier", "f", <<P_x, P_default>>, TRUE),
     Item("FunctionDeclaration", "", "Identifier", "g", <<>>, TRUE),
     Item("VariableDeclarator", "", "Identifier", "h", <<P_x>>, FALSE),
     Item("VariableDeclarator", "", "Identifier", "k", <<>>, TRUE),
     Item("ClassMethod", "method", "Identifier", "m", <<P_object, P_array>>, TRUE),
     Item("ClassMethod", "constructor", "Identifier", "constructor", <<P_rest>>, TRUE),
     Item("ObjectMethod", "method", "Identifier", "o", <<P_patternDefault>>, TRUE),
     Item("ObjectMethod", "method", "NumericLiteral", "1", <<P_x>>, TRUE),
     Item("FunctionExpression", "argument", "Identifier", "map", <<P_x>>, TRUE),
     Item("SyntaxError", "", "", "", <<>>, FALSE)}

Sources == SeqsUpTo(SourceItems, MaxItems)
SourceFiles == {"a.js", "a.ts"}

\* filename.endsWith('.ts') || filename.endsWith('.tsx')
isTypeScript(filename) == filename = "a.ts"

\* parser.parse(source, parserOptions): throws on text that does not parse
ParseThrows(source) == \E i \in 1..Len(source) : source[i].type = "SyntaxError"

\* extractParameterInfo(param): Undefined stands for the null it returns
extractParameterInfo(param) ==
    CASE param.form \in {"Identifier", "AssignmentPattern"} ->
            [k |-> "info", name |-> param.name]
      [] param.form = "ObjectPattern" -> [k |-> "info", name |-> "destructured_object"]
      [] param.form = "ArrayPattern" -> [k |-> "info", name |-> "destructured_array"]
      [] param.form = "RestElement" -> [k |-> "info", name |-> param.name]
      [] OTHER -> Undefined

\* The statement try { $_$twiz(name, value, offset, filename, {metadata}) } catch (e) {}
\* for a parameter and for the entry of a function (count: 0 - 1 when the metadata
\* holds no parameterCount)
ParameterCall(funcName, name, index, context, ts) ==
    [context |-> context \o "_parameter", functionName |-> funcName, value |-> name,
     parameterIndex |-> index, parameterCount |-> 0 - 1, expectError |-> ts]
EntryCall(funcName, count, context, ts) ==
    [context |-> context \o "_entry", functionName |-> funcName, value |-> funcName,
     parameterIndex |-> 0 - 1, parameterCount |-> count, expectError |-> ts]

\* params.forEach(...): one call for each parameter whose info has a name
RECURSIVE ParameterCalls(_, _, _, _, _)
ParameterCalls(params, index, funcName, context, ts) ==
    IF index > Len(params) THEN <<>>
    ELSE (IF extractParameterInfo(params[index]) = Undefined THEN <<>>
          ELSE <<ParameterCall(funcName, extractParameterInfo(params[index]).name,
                               index - 1, context, ts)>>)
         \o ParameterCalls(params, index + 1, funcName, context, ts)

\* The name the visitor passes: node.id.name, node.key.name || 'anonymous', or
\* node.key.name || node.key.value || 'anonymous'
FuncName(node) ==
    IF node.keyType = "Identifier" THEN [text |-> node.key, string |-> TRUE]
    ELSE IF node.type = "ObjectMethod" THEN [text |-> node.key, string |-> FALSE]
    ELSE [text |-> "anonymous", string |-> TRUE]

\* instrumentFunction(path, funcName, filename, context, isTypeScript): the node it
\* leaves; t.stringLiteral(funcName) throws when funcName is no string
instrumentFunction(node, funcName, context, ts) ==
    IF ~funcName.string THEN [threw |-> TRUE, node |-> node]
    ELSE IF Len(node.params) = 0
         THEN [threw |-> FALSE,
               node |-> [node EXCEPT !.records =
                            <<EntryCall(funcName.text, 0 - 1, context, ts)>> \o @]]
         ELSE [threw |-> FALSE,
               node |-> [node EXCEPT !.records =
                            <<EntryCall(funcName.text, Len(node.params), context, ts)>>
                            \o ParameterCalls(node.params, 1, funcName.text, context, ts)
                            \o @]]

\* instrumentArrowFunction(path, funcName, filename, isTypeScript)
instrumentArrowFunction(node, funcName, ts) ==
    IF Len(node.params) = 0 THEN [threw |-> FALSE, node |-> node]
    ELSE [threw |-> FALSE,
          node |-> [node EXCEPT !.block = TRUE,
                                !.records =
                                    ParameterCalls(node.params, 1, funcName.text,
                                                   "arrow_function", ts) \o @]]

\* The visitor of traverse for one node (lines 44-95); other node types have none
Visit(node, ts) ==
    CASE node.type = "FunctionDeclaration" ->
            instrumentFunction(node, FuncName(node), "function_declaration", ts)
      [] node.type = "ClassMethod" ->
            instrumentFunction(node, FuncName(node),
                               IF node.kind = "constructor" THEN "constructor"
                               ELSE "class_method", ts)
      [] node.type = "ObjectMethod" ->
            instrumentFunction(node, FuncName(node), "object_method", ts)
      [] node.type = "VariableDeclarator" ->
            instrumentArrowFunction(node, FuncName(node), ts)
      [] OTHER -> [threw |-> FALSE, node |-> node]

\* traverse(ast, visitors): the nodes in order; an error of a visitor leaves traverse.
\* The keys of instrumentedFunctions hold the start position, so that no two nodes
\* share one and the guard `if (instrumentedFunctions.has(key)) return` never fires.
RECURSIVE traverse(_, _, _)
traverse(ast, i, ts) ==
    IF i > Len(ast) THEN [threw |-> FALSE, ast |-> ast]
    ELSE The({IF out.threw THEN [threw |-> TRUE, ast |-> ast]
              ELSE traverse([ast EXCEPT ![i] = out.node], i + 1, ts)
              : out \in {Visit(ast[i], ts)}})

\* The runtime prelude as an item of the text
Runtime(ts) == [Item("Runtime", "", "", "", <<>>, TRUE) EXCEPT !.key = IF ts THEN "ts" ELSE "js"]

\* A catch that returns what has been built so far
CatchReturnsPartial(source, ast, ts) == <<Runtime(ts)>> \o ast

\* catch (error) { console.warn(...); return source; }
instrumentCatch(source, ast, ts) == source

\* instrumentCodeWithAST(source, filename)
instrumentCodeWithAST(source, filename) ==
    IF ParseThrows(source) THEN instrumentCatch(source, <<>>, isTypeScript(filename))
    ELSE The({IF out.threw THEN instrumentCatch(source, out.ast, isTypeScript(filename))
              ELSE <<Runtime(isTypeScript(filename))>> \o out.ast
              : out \in {traverse(source, 1, isTypeScript(filename))}})

\* The build hands a file to the instrumenter (the loader runs once per file and build)
Instrument(source, filename) ==
    /\ build' = [source |-> source, filename |-> filename, done |-> TRUE,
                 output |-> instrumentCodeWithAST(source, filename)]
    /\ UNCHANGED <<vars, host, now, batch, typewiz_logs, batch_timer, logs, trackedObjects,
                   timer, posts, calls, flushes, app>>

NextAST == \E source \in Sources, filename \in SourceFiles : Instrument(source, filename)

InitAST == Init /\ NotLoaded

SpecAST == InitAST /\ [][NextAST]_<<vars, rtvars>>

(***************************************************************************)
(* Claims about the instrumenter                                           *)
(***************************************************************************)
\* C25: when the parser rejects the source, instrumentCodeWithAST returns the source
\* it was given, item for item: not a partially instrumented text, and not the source
\* with the runtime prelude before it.
C25_ParserFailureReturnsSource ==
    (build.done /\ ParseThrows(build.source)) => build.output = build.source

\* A rejected file that also holds a function the instrumenter handles
C25_Witness ==
    /\ build.done
    /\ ParseThrows(build.source)
    /\ \E i \in 1..Len(build.source) : build.source[i].type = "FunctionDeclaration"
    /\ build.output = build.source

\* The nodes of a file whose instrumentation throws
Throwing(source, filename) ==
    {i \in 1..Len(source) : Visit(source[i], isTypeScript(filename)).threw}

\* C26: when instrumenting one node throws during the traversal, that node alone is
\* skipped: the text returned is the instrumented one, with the prelude, every other
\* node instrumented and the throwing node as it was.
C26_OnlyThatNodeSkipped ==
    (build.done /\ ~ParseThrows(build.source)
        /\ Throwing(build.source, build.filename) # {}) =>
        build.output =
            <<Runtime(isTypeScript(build.filename))>>
            \o [i \in 1..Len(build.source) |->
                    IF i \in Throwing(build.source, build.filename) THEN build.source[i]
                    ELSE Visit(build.source[i], isTypeScript(build.filename)).node]

\* The constructs the instrumenter is to handle
Handled(node) ==
    node.type \in {"FunctionDeclaration", "VariableDeclarator", "ClassMethod",
                   "ObjectMethod", "FunctionExpression"}

\* The injected statements of a node for its parameter of index j, and for its entry
ParameterRecords(node, j) ==
    {r \in 1..Len(node.records) : node.records[r].parameterIndex = j}
EntryRecords(node) ==
    {r \in 1..Len(node.records) : node.records[r].parameterIndex = 0 - 1}

\* The instrumenter returned an instrumented text
Instrumented == build.done /\ build.output # build.source

\* C27: in an instrumented text every function of a handled construct has exactly one
\* parameter record for each formal parameter, whatever its form, and exactly one
\* entry record, which carries the number of its parameters (a function without
\* parameters: an entry record that declares it has none).
C27_OneRecordPerParameter ==
    Instrumented =>
        \A i \in 1..Len(build.output) :
            Handled(build.output[i]) =>
                /\ \A j \in 1..Len(build.output[i].params) :
                      Cardinality(ParameterRecords(build.output[i], j - 1)) = 1
                /\ Cardinality(EntryRecords(build.output[i])) = 1
                /\ \A r \in EntryRecords(build.output[i]) :
                      build.output[i].records[r].parameterCount =
                          (IF build.output[i].params = <<>> THEN 0 - 1
                           ELSE Len(build.output[i].params))

====
